---- MODULE Spec2Model ----
(***************************************************************************)
(* The create / update / delete orchestration of the aws_autoscaling_group *)
(* resource (src/aws/resource_aws_autoscaling_group.go) as a state machine *)
(* at the boundary of the provider API: every action is one API call of    *)
(* the handler together with the handler code that runs up to the next     *)
(* call.  `calls` is the sequence of requests the handler sent, each with  *)
(* the answer the provider gave.                                           *)
(***************************************************************************)
EXTENDS Integers, Sequences, FiniteSets, TLC

\* ----------------------------------------------------------------- bounds
\* Largest configured min_size / max_size / desired_capacity, and largest
\* desired capacity a describe reports.
MaxCap == 1
\* Largest number of instances a describe reports.
MaxInst == 1
\* Largest number of initial_lifecycle_hook blocks.
MaxHooks == 2
\* Number of answers of the provider, within one operation, that make the
\* handler ask again (a retryable error, a group that is still there, a page
\* with a transitional item or with a next token).
MaxRetries == 2
\* Number of load balancer names plus target group ARNs that one update
\* attaches or detaches.
MaxNames == 21
\* Number of attributes that one update changes.
MaxChanged == 2
\* Length of a list of termination policies.
MaxPolicies == 2
\* Number of tag keys.
MaxTags == 1
\* Number of pages of a list of load balancers or target groups.
MaxPages == 2
\* The longest list of subnet identifiers.
MaxSubnets == 3
\* The longest value of wait_for_capacity_timeout.
MaxLen == 4
\* The most outposts on a page of ListOutposts.
MaxPageLen == 2

\* ------------------------------------------------------ program constants
\* batchSize := 10 (the API attaches and detaches at most 10 at a time)
batchSize == 10

\* A nil pointer in a request (the field is not sent) or in an answer.
NIL == -1

Min(a, b) == IF a < b THEN a ELSE b

VARIABLES
    op,     \* the handler that runs: "create", "update" or "delete"
    pc,     \* its position
    d,      \* *schema.ResourceData: the ID and the attributes the handler reads
    calls,  \* the API calls made so far, each with its answer
    loc,    \* locals of the handler: counters and the lists still to send
    w,      \* locals of the attachment wait that runs or ran last
    ret     \* what the handler returned: "none" while it runs, "ok", or an error

vars == <<op, pc, d, calls, loc, w, ret>>

\* The group name of the configuration.
asgName == "asg"

\* ----------------------------------------------------------- the API log
\* One call: the API, the group name of the request, the capacity fields of
\* the request (NIL: not sent), the names it carries (hook, batch), and the
\* answer: an outcome, and for a describe the group it reports (for the
\* describe of a read with the attributes of the group, in group).
Call(api, name, min, max, des, launch, arg, res, gname, inst, cap) ==
    [api |-> api, name |-> name, min |-> min, max |-> max, desired |-> des,
     launch |-> launch, arg |-> arg, opts |-> <<>>,
     res |-> res, gname |-> gname, inst |-> inst, cap |-> cap,
     group |-> <<>>]

\* A call that is no describe of the group and carries no launch source.
Req(api, name, min, max, des, arg, res) ==
    Call(api, name, min, max, des, {}, arg, res, "", NIL, NIL)

\* The indices of the calls of an API.
CallsOf(api) == {i \in 1..Len(calls) : calls[i].api = api}

\* The indices of the calls of an API that succeeded.
OkCallsOf(api) == {i \in CallsOf(api) : calls[i].res = "ok"}

\* ------------------------------------------------- resource data (d.Get)
\* d.GetOk is false for the zero value of the attribute.
GetOkInt(v) == v /= 0
GetOkSet(s) == s /= {}
GetOkList(l) == l /= <<>>

\* The launch_template block: absent, or a block with an id, a name, or neither.
LaunchTemplates == {"none", "id", "name", "empty"}

NoLocals == [n |-> 0, i |-> 0, steps |-> <<>>]
NoWait == [kind |-> "none", token |-> 0, pass |-> <<>>, status |-> "none"]

\* The attributes every handler finds in d (d.Get gives the new value); old
\* holds the values of the prior state (d.GetChange) of the attributes update
\* compares.  A handler's Init sets the ones it reads.
Config(min, max, des, hooks, lc, lt, mip, susp, metr, force) ==
    [id |-> "", name |-> asgName,
     min_size |-> min, max_size |-> max, desired_capacity |-> des,
     initial_lifecycle_hook |-> 1..hooks,
     launch_configuration |-> lc, launch_template |-> lt,
     mixed_instances_policy |-> mip,
     suspended_processes |-> susp, enabled_metrics |-> metr,
     load_balancers |-> {}, target_group_arns |-> {},
     termination_policies |-> <<>>,
     placement_group |-> "", availability_zones |-> {},
     vpc_zone_identifier |-> {}, tags |-> {},
     force_delete |-> force,
     instance_refresh_token |-> 0,
     default_cooldown |-> 0, max_instance_lifetime |-> 0,
     health_check_grace_period |-> 300, health_check_type |-> "EC2",
     service_linked_role_arn |-> "", protect_from_scale_in |-> FALSE,
     old |-> [min_size |-> min, max_size |-> max, desired_capacity |-> des,
              default_cooldown |-> 0, max_instance_lifetime |-> 0,
              health_check_grace_period |-> 300, health_check_type |-> "EC2",
              service_linked_role_arn |-> "", protect_from_scale_in |-> FALSE,
              termination_policies |-> <<>>,
              initial_lifecycle_hook |-> 1..hooks,
              suspended_processes |-> susp, enabled_metrics |-> metr,
              load_balancers |-> {}, target_group_arns |-> {},
              launch_configuration |-> lc, launch_template |-> lt,
              mixed_instances_policy |-> mip,
              placement_group |-> "", availability_zones |-> {},
              vpc_zone_identifier |-> {}, tags |-> {}]]

\* ================================================================ CREATE

\* len(initialLifecycleHooks) > 0
twoPhases(cfg) == cfg.initial_lifecycle_hook /= {}

\* Mutant: the create request carries the configured capacity in both modes.
MutCreateOptsCapacity(cfg) ==
    [min |-> cfg.min_size, max |-> cfg.max_size,
     desired |-> IF GetOkInt(cfg.desired_capacity)
                 THEN cfg.desired_capacity ELSE NIL]

\* The capacity fields of createOpts.
CreateOptsCapacity(cfg) ==
    IF twoPhases(cfg)
    THEN [min |-> 0, max |-> 0, desired |-> NIL]
    ELSE [min |-> cfg.min_size, max |-> cfg.max_size,
          desired |-> IF GetOkInt(cfg.desired_capacity)
                      THEN cfg.desired_capacity ELSE NIL]

\* The capacity fields of updateOpts, the request of the deferred update.
UpdateOptsCapacity(cfg) ==
    IF twoPhases(cfg)
    THEN [min |-> cfg.min_size, max |-> cfg.max_size,
          desired |-> IF GetOkInt(cfg.desired_capacity)
                      THEN cfg.desired_capacity ELSE NIL]
    ELSE [min |-> NIL, max |-> NIL, desired |-> NIL]

\* The launch sources createOpts carries.
CreateOptsLaunch(cfg) ==
    (IF cfg.launch_configuration THEN {"launch_configuration"} ELSE {})
    \cup (IF cfg.launch_template /= "none" THEN {"launch_template"} ELSE {})
    \cup (IF cfg.mixed_instances_policy THEN {"mixed_instances_policy"} ELSE {})

\* expandLaunchTemplateSpecification: an error when the block names neither
\* an id nor a name.
expandLaunchTemplateSpecification(lt) ==
    IF lt = "empty" THEN "error" ELSE "ok"

\* Mutant: every configuration passes.
MutCreateValidate(cfg) == "ok"

\* The check of the launch sources and the expansion of launch_template:
\* "ok", or the error create returns before any call.
CreateValidate(cfg) ==
    IF ~cfg.mixed_instances_policy /\ ~cfg.launch_configuration
       /\ cfg.launch_template = "none"
    THEN "ErrNoLaunchSource"
    ELSE IF cfg.launch_template /= "none"
            /\ expandLaunchTemplateSpecification(cfg.launch_template) = "error"
         THEN "ErrLaunchTemplate"
         ELSE "ok"

\* ------------------------------------------------------- resource.Retry
\* resource.Retry(timeout, f) calls f again while f returns a RetryableError
\* and the timeout has not elapsed.  kind classifies what f returned:
\* "success" (nil), "fatal" (NonRetryableError) or "retryable"; t is what
\* follows a retryable error: f is called "again", or the timeout elapsed and
\* Retry returns either a TimeoutError without last error ("timeout", the one
\* case isResourceTimeoutError accepts) or the last error of f ("lasterr").
RetryKinds == {"again", "timeout", "lasterr"}

\* The position after one call of f: pcOk after success, pcFinal for the
\* attempt the handler makes after a timeout, "done" when the handler returns.
RetryPc(kind, t, pcOk, pcFinal) ==
    CASE kind = "success" -> pcOk
      [] kind = "fatal" -> "done"
      [] kind = "retryable" /\ t = "again" -> pc
      [] kind = "retryable" /\ t = "timeout" -> pcFinal
      [] OTHER -> "done"

\* What the handler returns after one call of f: err when Retry ended with
\* an error that is no timeout, nothing yet otherwise.
RetryRet(kind, t, err) ==
    IF kind = "fatal" \/ (kind = "retryable" /\ t = "lasterr") THEN err ELSE ret

\* What one call of f adds to the log: the call, and after it the timeout of
\* Retry when that is what follows, with what Retry returned.
RetryLog(call, kind, t) ==
    IF kind = "retryable" /\ t /= "again"
    THEN <<call, Req("resource.Retry", call.name, NIL, NIL, NIL, <<>>,
                     IF t = "timeout" THEN "TimeoutError" ELSE "LastError")>>
    ELSE <<call>>

\* The outcomes of a call that the provider may answer with a retryable
\* error: the retryable ones only while the model's bound allows another one.
Outcomes(final, retryable) ==
    final \cup (IF loc.n < MaxRetries THEN retryable ELSE {})

\* ------------------------------------------------------ describe answers
\* What DescribeAutoScalingGroups answers: an error, the error code
\* InvalidGroup.NotFound, a list without the group (another group only), or
\* the group with its instances and desired capacity.
\* A describe that names no group (the ID was cleared) is not answered with
\* the group.
DescribeAnswers(name, caps) ==
    {[res |-> "error", gname |-> "", inst |-> NIL, cap |-> NIL],
     [res |-> "NotFound", gname |-> "", inst |-> NIL, cap |-> NIL],
     [res |-> "ok", gname |-> "other", inst |-> MaxInst, cap |-> MaxCap]}
    \cup {[res |-> "ok", gname |-> asgName, inst |-> i, cap |-> c] :
             i \in IF name = asgName THEN 0..MaxInst ELSE {}, c \in caps}

\* Mutant: any group of the answer is taken, whatever its name.
MutGetAwsAutoscalingGroup(name, a) ==
    [err |-> a.res = "error", found |-> a.res = "ok"]

\* getAwsAutoscalingGroup: the error, or the group of that name when the
\* answer lists it (found), or nil.
getAwsAutoscalingGroup(name, a) ==
    [err |-> a.res = "error",
     found |-> a.res = "ok" /\ a.gname = name]

Describe(name, a) ==
    Call("DescribeAutoScalingGroups", name, NIL, NIL, NIL, {}, <<>>,
         a.res, a.gname, a.inst, a.cap)

\* ------------------------------------------- read, the attributes set
\* The termination policies of the model.
Policies == {"Default", "OldestInstance"}

\* The lists of termination policies, configured or reported by the provider.
PolicyLists == UNION {[1..n -> Policies] : n \in 0..MaxPolicies}

\* flattenStringList: the strings the pointers of the list point to, in order.
flattenStringList(list) == [i \in 1..Len(list) |-> list[i]]

\* Mutant: a reported list that starts with "Default" is elided whatever
\* follows.
MutReadTerminationPolicies(ok, observed) ==
    IF ~ok /\ Len(observed) >= 1 /\ observed[1] = "Default"
    THEN <<>> ELSE flattenStringList(observed)

\* Lines 814-824: what read sets termination_policies to, ok being what
\* d.GetOk("termination_policies") said and observed g.TerminationPolicies.
ReadTerminationPolicies(ok, observed) ==
    IF ~ok /\ Len(observed) = 1 /\ observed[1] = "Default"
    THEN <<>> ELSE flattenStringList(observed)

\* (*schema.Set).List() of a set of strings: the members in the order of
\* the set.
RECURSIVE StringList(_)
StringList(S) ==
    IF S = {} THEN <<>>
    ELSE LET x == CHOOSE y \in S : TRUE IN <<x>> \o StringList(S \ {x})

\* The groups a describe of read reports for the resource data cfg: the
\* group that has every attribute as cfg holds it, but for its desired
\* capacity and its termination policies, which are any; or that group with
\* another minimum or maximum size, other enabled metrics or suspended
\* processes, the VPCZoneIdentifier as expandVpcZoneIdentifiers sends it, no
\* tags, or one more tag, with a key that is not configured.
\* A VPCZoneIdentifier is the number of empty strings and the identifiers
\* that are joined with commas.
ReportedGroups(cfg) ==
    LET g == [AutoScalingGroupName |-> cfg.id,
              AvailabilityZones |-> cfg.availability_zones,
              DefaultCooldown |-> cfg.default_cooldown,
              DesiredCapacity |-> cfg.desired_capacity,
              EnabledMetrics |-> cfg.enabled_metrics,
              HealthCheckGracePeriod |-> cfg.health_check_grace_period,
              HealthCheckType |-> cfg.health_check_type,
              LoadBalancerNames |-> cfg.load_balancers,
              LaunchConfigurationName |-> cfg.launch_configuration,
              LaunchTemplate |-> cfg.launch_template,
              MaxSize |-> cfg.max_size, MinSize |-> cfg.min_size,
              MixedInstancesPolicy |-> cfg.mixed_instances_policy,
              PlacementGroup |-> cfg.placement_group,
              NewInstancesProtectedFromScaleIn |-> cfg.protect_from_scale_in,
              ServiceLinkedRoleARN |-> cfg.service_linked_role_arn,
              MaxInstanceLifetime |-> cfg.max_instance_lifetime,
              SuspendedProcesses |-> cfg.suspended_processes,
              Tags |-> cfg.tags,
              TargetGroupARNs |-> cfg.target_group_arns,
              TerminationPolicies |-> cfg.termination_policies,
              VPCZoneIdentifier |->
                  [empty |-> 0, ids |-> StringList(cfg.vpc_zone_identifier)]]
    IN  {[g EXCEPT !.DesiredCapacity = c, !.TerminationPolicies = tp] :
            c \in 0..MaxCap, tp \in PolicyLists}
        \cup {[g EXCEPT !.MinSize = m] : m \in 0..MaxCap}
        \cup {[g EXCEPT !.MaxSize = m] : m \in 0..MaxCap}
        \cup {[g EXCEPT !.EnabledMetrics = m] : m \in {{}, {1}}}
        \cup {[g EXCEPT !.SuspendedProcesses = m] : m \in {{}, {1}}}
        \cup {[g EXCEPT !.VPCZoneIdentifier.empty =
                            Cardinality(cfg.vpc_zone_identifier)]}
        \cup {[g EXCEPT !.Tags = t] :
                 t \in {{}, cfg.tags \cup {[key |-> MaxTags + 1, value |-> 1,
                                            propagate_at_launch |-> FALSE]}}}

\* Mutant: a group that is missing also resets the desired capacity.
MutReadSet(cfg, r, g) ==
    IF r.err THEN cfg
    ELSE IF ~r.found THEN [cfg EXCEPT !.id = "", !.desired_capacity = 0]
    ELSE [cfg EXCEPT
            !.desired_capacity = g.DesiredCapacity,
            !.termination_policies =
                ReadTerminationPolicies(GetOkList(cfg.termination_policies),
                                        g.TerminationPolicies)]

\* Lines 726-834: the resource data after read, r being what
\* getAwsAutoscalingGroup returned and g the group: unchanged after an
\* error, without ID when the group is missing, with the attributes of the
\* group otherwise.  Lines 784-808: tags is the merged collection of the
\* attributes tag and tags; with tags configured it is set to the tags of the
\* group that have a configured key, without to every tag of the group (no
\* tag of the model has an aws: key or an ignored one).  Lines 826-831:
\* vpc_zone_identifier is
\* empty for the empty VPCZoneIdentifier and otherwise holds what the commas
\* separate, the empty string for each empty piece.
ReadSet(cfg, r, g) ==
    IF r.err THEN cfg
    ELSE IF ~r.found THEN [cfg EXCEPT !.id = ""]
    ELSE LET v == g.VPCZoneIdentifier
             pieces == v.empty + Len(v.ids)
             isEmpty == pieces = 0 \/ (pieces = 1 /\ v.empty = 1)
                        \/ (pieces = 1 /\ v.ids[1] = "")
         IN
         [cfg EXCEPT
            !.availability_zones = g.AvailabilityZones,
            !.default_cooldown = g.DefaultCooldown,
            !.desired_capacity = g.DesiredCapacity,
            !.enabled_metrics = g.EnabledMetrics,
            !.health_check_grace_period = g.HealthCheckGracePeriod,
            !.health_check_type = g.HealthCheckType,
            !.load_balancers = g.LoadBalancerNames,
            !.launch_configuration = g.LaunchConfigurationName,
            !.launch_template = g.LaunchTemplate,
            !.max_size = g.MaxSize,
            !.min_size = g.MinSize,
            !.mixed_instances_policy = g.MixedInstancesPolicy,
            !.name = g.AutoScalingGroupName,
            !.placement_group = g.PlacementGroup,
            !.protect_from_scale_in = g.NewInstancesProtectedFromScaleIn,
            !.service_linked_role_arn = g.ServiceLinkedRoleARN,
            !.max_instance_lifetime = g.MaxInstanceLifetime,
            !.suspended_processes = g.SuspendedProcesses,
            !.tags = IF GetOkSet(cfg.tags)
                     THEN {t \in g.Tags : \E c \in cfg.tags : c.key = t.key}
                     ELSE g.Tags,
            !.target_group_arns = g.TargetGroupARNs,
            !.termination_policies =
                ReadTerminationPolicies(GetOkList(cfg.termination_policies),
                                        g.TerminationPolicies),
            !.vpc_zone_identifier =
                IF isEmpty THEN {}
                ELSE (IF v.empty > 0 THEN {""} ELSE {})
                     \cup {v.ids[k] : k \in 1..Len(v.ids)}]

\* ------------------------------------------------------- create, actions
\* Mutant: every error of the create call is retried.
MutCreateKind(res) ==
    IF res = "ok" THEN "success" ELSE "retryable"

\* isAWSErr(err, "ValidationError", "Invalid IAM Instance Profile")
CreateKind(res) ==
    CASE res = "ok" -> "success"
      [] res = "IAM" -> "retryable"
      [] OTHER -> "fatal"

CreateRequest(cfg, res) ==
    Call("CreateAutoScalingGroup", asgName,
         CreateOptsCapacity(cfg).min, CreateOptsCapacity(cfg).max,
         CreateOptsCapacity(cfg).desired, CreateOptsLaunch(cfg), <<>>,
         res, "", NIL, NIL)

\* The position after the group was created.
AfterCreate(cfg) == IF twoPhases(cfg) THEN "hooks" ELSE "waitCapacity"

\* Lines 535-659: the requests are built; no launch source is an error.
CreateStart ==
    /\ op = "create" /\ pc = "start"
    /\ pc' = IF CreateValidate(d) = "ok" THEN "createRetry" ELSE "done"
    /\ ret' = IF CreateValidate(d) = "ok" THEN ret ELSE CreateValidate(d)
    /\ UNCHANGED <<op, d, calls, loc, w>>

\* Lines 662-675 and 679-684: one CreateAutoScalingGroup inside resource.Retry.
CreateAttempt ==
    /\ op = "create" /\ pc = "createRetry"
    /\ \E res \in Outcomes({"ok", "other"}, {"IAM"}), t \in RetryKinds :
        /\ calls' = calls \o RetryLog(CreateRequest(d, res), CreateKind(res), t)
        /\ pc' = RetryPc(CreateKind(res), t, AfterCreate(d), "createFinal")
        /\ ret' = RetryRet(CreateKind(res), t, "ErrCreate")
        /\ loc' = [loc EXCEPT !.n = IF CreateKind(res) = "retryable" THEN @ + 1 ELSE @]
        /\ d' = IF res = "ok" THEN [d EXCEPT !.id = d.name] ELSE d
    /\ UNCHANGED <<op, w>>

\* Mutant: the ID is recorded whatever the final attempt returned.
MutCreateFinalAttempt ==
    /\ op = "create" /\ pc = "createFinal"
    /\ \E res \in {"ok", "IAM", "other"} :
        /\ calls' = Append(calls, CreateRequest(d, res))
        /\ pc' = IF res = "ok" THEN AfterCreate(d) ELSE "done"
        /\ ret' = IF res = "ok" THEN ret ELSE "ErrCreate"
        /\ d' = [d EXCEPT !.id = d.name]
    /\ UNCHANGED <<op, loc, w>>

\* Lines 676-684: the attempt made once after the retry timed out.
CreateFinalAttempt ==
    /\ op = "create" /\ pc = "createFinal"
    /\ \E res \in {"ok", "IAM", "other"} :
        /\ calls' = Append(calls, CreateRequest(d, res))
        /\ pc' = IF res = "ok" THEN AfterCreate(d) ELSE "done"
        /\ ret' = IF res = "ok" THEN ret ELSE "ErrCreate"
        /\ d' = IF res = "ok" THEN [d EXCEPT !.id = d.name] ELSE d
    /\ UNCHANGED <<op, loc, w>>

\* generatePutLifecycleHookInputs: the hooks in the order they are put.
generatePutLifecycleHookInputs(cfg) ==
    [i \in 1..Cardinality(cfg.initial_lifecycle_hook) |-> i]

\* Mutant: the capacity update follows the first hook.
MutAfterHook(cfg, i) == "deferredUpdate"

\* The position after hook number i was put.
AfterHook(cfg, i) ==
    IF i = Len(generatePutLifecycleHookInputs(cfg)) THEN "deferredUpdate" ELSE "hooks"

\* Mutant: a hook that cannot be put is reported as a failed creation and
\* the ID is cleared.
MutCreateHook ==
    /\ op = "create" /\ pc = "hooks"
    /\ \E res \in {"ok", "error"} :
        /\ calls' = Append(calls,
               Req("PutLifecycleHook", asgName, NIL, NIL, NIL,
                   <<generatePutLifecycleHookInputs(d)[loc.i + 1]>>, res))
        /\ pc' = IF res = "ok" THEN AfterHook(d, loc.i + 1) ELSE "done"
        /\ ret' = IF res = "ok" THEN ret ELSE "ErrCreate"
        /\ loc' = [loc EXCEPT !.i = IF res = "ok" THEN @ + 1 ELSE @]
        /\ d' = IF res = "ok" THEN d ELSE [d EXCEPT !.id = ""]
    /\ UNCHANGED <<op, w>>

\* Lines 686-691: one resourceAwsAutoscalingLifecycleHookPutOp.
CreateHook ==
    /\ op = "create" /\ pc = "hooks"
    /\ \E res \in {"ok", "error"} :
        /\ calls' = Append(calls,
               Req("PutLifecycleHook", asgName, NIL, NIL, NIL,
                   <<generatePutLifecycleHookInputs(d)[loc.i + 1]>>, res))
        /\ pc' = IF res = "ok" THEN AfterHook(d, loc.i + 1) ELSE "done"
        /\ ret' = IF res = "ok" THEN ret ELSE "ErrHooks"
        /\ loc' = [loc EXCEPT !.i = IF res = "ok" THEN @ + 1 ELSE @]
    /\ UNCHANGED <<op, d, w>>

\* Lines 693-696: the deferred update that sets the real capacity.
CreateDeferredUpdate ==
    /\ op = "create" /\ pc = "deferredUpdate"
    /\ \E res \in {"ok", "error"} :
        /\ calls' = Append(calls,
               Req("UpdateAutoScalingGroup", asgName,
                   UpdateOptsCapacity(d).min, UpdateOptsCapacity(d).max,
                   UpdateOptsCapacity(d).desired, <<>>, res))
        /\ pc' = IF res = "ok" THEN "waitCapacity" ELSE "done"
        /\ ret' = IF res = "ok" THEN ret ELSE "ErrInitialCapacity"
    /\ UNCHANGED <<op, d, loc, w>>

\* Mutant: processes are suspended whether or not any is configured.
MutAfterWaitCapacity(cfg) == "suspend"

\* The position after the capacity wait of create.
AfterWaitCapacity(cfg) ==
    IF GetOkSet(cfg.suspended_processes) THEN "suspend"
    ELSE IF GetOkSet(cfg.enabled_metrics) THEN "metrics" ELSE "read"

\* Lines 699-701: waitForASGCapacity(d, meta, capacitySatisfiedCreate).
CreateWaitCapacity ==
    /\ op = "create" /\ pc = "waitCapacity"
    /\ \E res \in {"ok", "error"} :
        /\ calls' = Append(calls,
               Req("waitForASGCapacity", d.id, NIL, NIL, NIL, <<>>, res))
        /\ pc' = IF res = "ok" THEN AfterWaitCapacity(d) ELSE "done"
        /\ ret' = IF res = "ok" THEN ret ELSE "ErrCapacity"
    /\ UNCHANGED <<op, d, loc, w>>

\* Lines 703-708 and 1369-1377: enableASGSuspendedProcesses.
CreateSuspendProcesses ==
    /\ op = "create" /\ pc = "suspend"
    /\ \E res \in {"ok", "error"} :
        /\ calls' = Append(calls,
               Req("SuspendProcesses", d.id, NIL, NIL, NIL, <<>>, res))
        /\ pc' = IF res /= "ok" THEN "done"
                 ELSE IF GetOkSet(d.enabled_metrics) THEN "metrics" ELSE "read"
        /\ ret' = IF res = "ok" THEN ret ELSE "ErrSuspend"
    /\ UNCHANGED <<op, d, loc, w>>

\* Lines 710-717 and 1379-1390: enableASGMetricsCollection, then the token.
CreateEnableMetrics ==
    /\ op = "create" /\ pc = "metrics"
    /\ \E res \in {"ok", "error"} :
        /\ calls' = Append(calls,
               Req("EnableMetricsCollection", d.id, NIL, NIL, NIL, <<>>, res))
        /\ pc' = IF res = "ok" THEN "read" ELSE "done"
        /\ ret' = IF res = "ok" THEN ret ELSE "ErrMetrics"
    /\ UNCHANGED <<op, d, loc, w>>

\* Lines 717-719 and 722-834: the refresh token is set and create returns
\* through read: an error is returned, a missing group clears the ID, and
\* the attributes are set from a group that was found.  loc keeps the
\* locals of read and, in planned, the resource data create worked with.
CreateRead ==
    /\ op = "create" /\ pc = "read"
    /\ \E a \in DescribeAnswers(d.id, 0..MaxCap),
          g \in ReportedGroups(d) \cup {<<>>} :
        LET r == getAwsAutoscalingGroup(d.id, a)
            set == [d EXCEPT !.instance_refresh_token = @ + 1]
        IN
        /\ IF r.found THEN g /= <<>> /\ g.DesiredCapacity = a.cap
                      ELSE g = <<>>
        /\ calls' = Append(calls, [Describe(d.id, a) EXCEPT !.group = g])
        /\ ret' = IF r.err THEN "ErrRead" ELSE "ok"
        /\ d' = ReadSet(set, r, g)
        /\ loc' = [n |-> loc.n, i |-> loc.i, steps |-> loc.steps,
                   found |-> r.found, ok |-> GetOkList(d.termination_policies),
                   TerminationPolicies |->
                       IF r.found THEN g.TerminationPolicies ELSE <<>>,
                   planned |-> set]
    /\ pc' = "done"
    /\ UNCHANGED <<op, w>>

\* The configurations create is called with: the schema lets
\* launch_configuration and launch_template conflict, so no configuration
\* has both.
CreateConfigs ==
    {Config(min, max, des, hooks, lc, lt, mip, susp, metr, FALSE) :
        min \in 0..MaxCap, max \in 0..MaxCap, des \in 0..MaxCap,
        hooks \in 0..MaxHooks,
        lc \in BOOLEAN, lt \in LaunchTemplates, mip \in BOOLEAN,
        susp \in {{}, {1}}, metr \in {{}, {1}}}

InitCreate ==
    /\ op = "create" /\ pc = "start"
    /\ d \in {c \in CreateConfigs :
                ~(c.launch_configuration /\ c.launch_template /= "none")}
    /\ calls = <<>> /\ loc = NoLocals /\ w = NoWait /\ ret = "none"

NextCreate ==
    \/ CreateStart
    \/ CreateAttempt
    \/ CreateFinalAttempt
    \/ CreateHook
    \/ CreateDeferredUpdate
    \/ CreateWaitCapacity
    \/ CreateSuspendProcesses
    \/ CreateEnableMetrics
    \/ CreateRead

SpecCreate == InitCreate /\ [][NextCreate]_vars

\* ================================================================ DELETE

\* len(g.Instances) > 0 || *g.DesiredCapacity > 0
\* Mutant: every group that is found is drained.
MutNeedsDrain(a) == TRUE

NeedsDrain(a) == a.inst > 0 \/ a.cap > 0

\* The position after the first describe found the group: the drain (which
\* force_delete skips), or the delete request.
AfterDeleteDescribe(cfg, a) ==
    IF NeedsDrain(a) /\ ~cfg.force_delete THEN "drainUpdate" ELSE "deleteRetry"

\* Lines 1209-1227 and 1313-1319: the group is described; delete is done when
\* it is not there.
DeleteStart ==
    /\ op = "delete" /\ pc = "start"
    /\ \E a \in DescribeAnswers(d.id, 0..MaxCap) :
        /\ calls' = Append(calls, Describe(d.id, a))
        /\ pc' = IF getAwsAutoscalingGroup(d.id, a).found
                 THEN AfterDeleteDescribe(d, a) ELSE "done"
        /\ ret' = IF getAwsAutoscalingGroup(d.id, a).err THEN "ErrDescribe"
                  ELSE IF getAwsAutoscalingGroup(d.id, a).found THEN ret ELSE "ok"
    /\ UNCHANGED <<op, d, loc, w>>

\* Lines 1321-1331: the capacity is set to zero so that the group drains.
DrainUpdate ==
    /\ op = "delete" /\ pc = "drainUpdate"
    /\ \E res \in {"ok", "error"} :
        /\ calls' = Append(calls,
               Req("UpdateAutoScalingGroup", d.id, 0, 0, 0, <<>>, res))
        /\ pc' = IF res = "ok" THEN "drainRetry" ELSE "done"
        /\ ret' = IF res = "ok" THEN ret ELSE "ErrDrainUpdate"
    /\ UNCHANGED <<op, d, loc, w>>

\* Mutant: the drain is over with the first describe that is no error.
MutDrainKind(name, a) ==
    IF getAwsAutoscalingGroup(name, a).err THEN "fatal" ELSE "success"

\* What the function retried by the drain returns for a describe answer.
DrainKind(name, a) ==
    CASE getAwsAutoscalingGroup(name, a).err -> "fatal"
      [] ~getAwsAutoscalingGroup(name, a).found -> "success"
      [] a.inst = 0 -> "success"
      [] OTHER -> "retryable"

\* The answers after which the handler describes again.
StillThere(name, caps) ==
    {a \in DescribeAnswers(name, caps) : a.res = "ok" /\ a.gname = name}

\* Lines 1336-1353: one describe inside the retry of the drain; a group that
\* is not found clears the ID.
DrainPoll ==
    /\ op = "delete" /\ pc = "drainRetry"
    /\ \E a \in Outcomes(DescribeAnswers(d.id, {0}) \ {x \in StillThere(d.id, {0}) : x.inst > 0},
                         {x \in StillThere(d.id, {0}) : x.inst > 0}),
          t \in RetryKinds :
        /\ calls' = calls \o RetryLog(Describe(d.id, a), DrainKind(d.id, a), t)
        /\ pc' = RetryPc(DrainKind(d.id, a), t, "deleteRetry", "drainFinal")
        /\ ret' = RetryRet(DrainKind(d.id, a), t, "ErrDrain")
        /\ loc' = [loc EXCEPT !.n = IF DrainKind(d.id, a) = "retryable" THEN @ + 1 ELSE @]
        /\ d' = IF ~getAwsAutoscalingGroup(d.id, a).err
                   /\ ~getAwsAutoscalingGroup(d.id, a).found
                THEN [d EXCEPT !.id = ""] ELSE d
    /\ UNCHANGED <<op, w>>

\* fmt.Errorf("Group still has %d instances", len(g.Instances)), line 1360
StillHasInstances(n) == "Group still has " \o ToString(n) \o " instances"

\* Mutant: the describe after the timeout only has to succeed.
MutDrainFinalResult(name, a) ==
    IF getAwsAutoscalingGroup(name, a).err THEN "ErrDrainDescribe" ELSE "ok"

\* What the drain returns after the describe that follows its timeout: an
\* error, or "ok".
DrainFinalResult(name, a) ==
    IF getAwsAutoscalingGroup(name, a).err THEN "ErrDrainDescribe"
    ELSE IF getAwsAutoscalingGroup(name, a).found /\ a.inst > 0
         THEN StillHasInstances(a.inst)
         ELSE "ok"

\* Lines 1354-1366: the describe made once after the drain timed out.
DrainFinal ==
    /\ op = "delete" /\ pc = "drainFinal"
    /\ \E a \in DescribeAnswers(d.id, {0}) :
        /\ calls' = Append(calls, Describe(d.id, a))
        /\ pc' = IF DrainFinalResult(d.id, a) = "ok" THEN "deleteRetry" ELSE "done"
        /\ ret' = IF DrainFinalResult(d.id, a) = "ok" THEN ret
                  ELSE DrainFinalResult(d.id, a)
    /\ UNCHANGED <<op, d, loc, w>>

\* Mutant: InvalidGroup.NotFound is an error like any other.
MutDeleteKind(res) ==
    CASE res = "ok" -> "success"
      [] res \in {"ResourceInUse", "ScalingActivityInProgress"} -> "retryable"
      [] OTHER -> "fatal"

\* Lines 1239-1254: what the retried function returns for an answer to
\* DeleteAutoScalingGroup.
DeleteKind(res) ==
    CASE res \in {"ok", "NotFound"} -> "success"
      [] res \in {"ResourceInUse", "ScalingActivityInProgress"} -> "retryable"
      [] OTHER -> "fatal"

DeleteRequest(cfg, res) ==
    Req("DeleteAutoScalingGroup", cfg.id, NIL, NIL, NIL, <<>>, res)

\* Lines 1229-1255 and 1262-1264: one DeleteAutoScalingGroup inside the retry.
DeleteAttempt ==
    /\ op = "delete" /\ pc = "deleteRetry"
    /\ \E res \in Outcomes({"ok", "NotFound", "other"},
                           {"ResourceInUse", "ScalingActivityInProgress"}),
          t \in RetryKinds :
        /\ calls' = calls \o RetryLog(DeleteRequest(d, res), DeleteKind(res), t)
        /\ pc' = RetryPc(DeleteKind(res), t, "pollRetry", "deleteFinal")
        /\ ret' = RetryRet(DeleteKind(res), t, "ErrDelete")
        /\ loc' = [loc EXCEPT !.n = IF DeleteKind(res) = "retryable" THEN @ + 1 ELSE @]
    /\ UNCHANGED <<op, d, w>>

\* What delete does with the answer to the request made after the timeout:
\* it returns nil ("ok"), returns an error, or goes on to the poll ("poll").
DeleteFinalResult(res) ==
    CASE res = "NotFound" -> "ok"
      [] res = "ok" -> "poll"
      [] OTHER -> "ErrDelete"

\* Lines 1256-1264: the request made once after the retry timed out.
DeleteFinalAttempt ==
    /\ op = "delete" /\ pc = "deleteFinal"
    /\ \E res \in {"ok", "NotFound", "other", "ResourceInUse",
                    "ScalingActivityInProgress"} :
        /\ calls' = Append(calls, DeleteRequest(d, res))
        /\ pc' = IF DeleteFinalResult(res) = "poll" THEN "pollRetry" ELSE "done"
        /\ ret' = IF DeleteFinalResult(res) = "poll" THEN ret
                  ELSE DeleteFinalResult(res)
    /\ UNCHANGED <<op, d, loc, w>>

\* Mutant: the poll does not look at the group.
MutDeletePollKind(name, a) == "success"

\* Lines 1268-1273: the retried function asks again while a group comes
\* back; the error of the describe is not looked at.
DeletePollKind(name, a) ==
    IF getAwsAutoscalingGroup(name, a).found THEN "retryable" ELSE "success"

\* Lines 1266-1274 and 1281-1284: one describe inside the retry that waits
\* for the group to be gone.
DeletePoll ==
    /\ op = "delete" /\ pc = "pollRetry"
    /\ \E a \in Outcomes(DescribeAnswers(d.id, {0}) \ StillThere(d.id, {0}),
                         StillThere(d.id, {0})),
          t \in RetryKinds :
        /\ calls' = calls \o RetryLog(Describe(d.id, a), DeletePollKind(d.id, a), t)
        /\ pc' = RetryPc(DeletePollKind(d.id, a), t, "done", "pollFinal")
        /\ ret' = IF DeletePollKind(d.id, a) = "success" THEN "ok"
                  ELSE RetryRet(DeletePollKind(d.id, a), t, "ErrDeletePoll")
        /\ loc' = [loc EXCEPT !.n = IF DeletePollKind(d.id, a) = "retryable" THEN @ + 1 ELSE @]
    /\ UNCHANGED <<op, d, w>>

\* What delete returns after the describe that follows the timeout of the poll.
DeletePollFinalResult(name, a) ==
    IF getAwsAutoscalingGroup(name, a).found THEN "ErrStillExists"
    ELSE IF getAwsAutoscalingGroup(name, a).err THEN "ErrDeletePoll"
         ELSE "ok"

\* Lines 1275-1284: the describe made once after the poll timed out.
DeletePollFinal ==
    /\ op = "delete" /\ pc = "pollFinal"
    /\ \E a \in DescribeAnswers(d.id, {0}) :
        /\ calls' = Append(calls, Describe(d.id, a))
        /\ ret' = DeletePollFinalResult(d.id, a)
    /\ pc' = "done"
    /\ UNCHANGED <<op, d, loc, w>>

InitDelete ==
    /\ op = "delete" /\ pc = "start"
    /\ d \in {[Config(0, 0, 0, 0, FALSE, "none", FALSE, {}, {}, force)
                EXCEPT !.id = asgName] : force \in BOOLEAN}
    /\ calls = <<>> /\ loc = NoLocals /\ w = NoWait /\ ret = "none"

NextDelete ==
    \/ DeleteStart
    \/ DrainUpdate
    \/ DrainPoll
    \/ DrainFinal
    \/ DeleteAttempt
    \/ DeleteFinalAttempt
    \/ DeletePoll
    \/ DeletePollFinal

SpecDelete == InitDelete /\ [][NextDelete]_vars

\* ================================================================== READ


\* Lines 722-834: the group is described; an error is returned, a missing
\* group clears the ID, and the attributes are set from a group that was
\* found.  loc keeps g and ok, the locals of read.
ReadGroup ==
    /\ op = "read" /\ pc = "start"
    /\ \E a \in DescribeAnswers(d.id, 0..MaxCap),
          g \in ReportedGroups(d) \cup {<<>>} :
        LET r == getAwsAutoscalingGroup(d.id, a)
            ok == GetOkList(d.termination_policies)
        IN
        /\ IF r.found THEN g /= <<>> /\ g.DesiredCapacity = a.cap
                      ELSE g = <<>>
        /\ calls' = Append(calls, [Describe(d.id, a) EXCEPT !.group = g])
        /\ ret' = IF r.err THEN "ErrRead" ELSE "ok"
        /\ d' = ReadSet(d, r, g)
        /\ loc' = [n |-> 0, i |-> 0, steps |-> <<>>,
                   found |-> r.found, ok |-> ok,
                   TerminationPolicies |->
                       IF r.found THEN g.TerminationPolicies ELSE <<>>]
    /\ pc' = "done"
    /\ UNCHANGED <<op, w>>

\* The states read is called in: the group has an ID, and the resource data
\* hold a desired capacity and a list of termination policies.
InitRead ==
    /\ op = "read" /\ pc = "start"
    /\ \E des \in 0..MaxCap, tp \in PolicyLists :
        d = [Config(0, MaxCap, des, 0, TRUE, "none", FALSE, {}, {}, FALSE)
             EXCEPT !.id = asgName, !.termination_policies = tp]
    /\ calls = <<>> /\ loc = NoLocals /\ w = NoWait /\ ret = "none"

NextRead == ReadGroup

SpecRead == InitRead /\ [][NextRead]_vars


\* ================================================================ UPDATE

\* d.HasChange
HasChange(cfg, attr) == cfg.old[attr] /= cfg[attr]

\* (*schema.Set).List(): the members in the order of the set, here ascending.
RECURSIVE List(_)
List(S) ==
    IF S = {} THEN <<>>
    ELSE LET lo == CHOOSE x \in S : \A y \in S : x <= y
         IN  <<lo>> \o List(S \ {lo})

\* Mutant: a list of exactly batchSize names is split as well.
RECURSIVE MutBatches(_)
MutBatches(list) ==
    IF batchSize <= Len(list)
    THEN <<SubSeq(list, 1, batchSize)>>
         \o MutBatches(SubSeq(list, batchSize + 1, Len(list)))
    ELSE <<list>>

\* Mutant: the batches after the first start over at the head of the list.
RECURSIVE MutBatchesRepeat(_)
MutBatchesRepeat(list) ==
    IF batchSize < Len(list)
    THEN <<SubSeq(list, 1, batchSize)>>
         \o MutBatchesRepeat(SubSeq(list, 1, Len(list) - batchSize))
    ELSE <<list>>

\* for batchSize < len(list) { list, batches = list[batchSize:], append(batches, list[0:batchSize]) }
\* batches = append(batches, list)
RECURSIVE Batches(_)
Batches(list) ==
    IF batchSize < Len(list)
    THEN <<SubSeq(list, 1, batchSize)>>
         \o Batches(SubSeq(list, batchSize + 1, Len(list)))
    ELSE <<list>>

\* The calls for one list of names, each with the wait that follows it: none
\* for an empty list.
Steps(api, wait, list) ==
    IF Len(list) > 0
    THEN [i \in 1..Len(Batches(list)) |->
            [api |-> api, wait |-> wait, batch |-> Batches(list)[i]]]
    ELSE <<>>

\* Lines 1049-1117: what update sends for load_balancers.
LoadBalancerSteps(cfg) ==
    IF HasChange(cfg, "load_balancers")
    THEN Steps("DetachLoadBalancers", "LoadBalancersRemoved",
               List(cfg.old.load_balancers \ cfg.load_balancers))
         \o Steps("AttachLoadBalancers", "LoadBalancersAdded",
                  List(cfg.load_balancers \ cfg.old.load_balancers))
    ELSE <<>>

\* Lines 1119-1186: what update sends for target_group_arns.
TargetGroupSteps(cfg) ==
    IF HasChange(cfg, "target_group_arns")
    THEN Steps("DetachLoadBalancerTargetGroups", "LoadBalancerTargetGroupsRemoved",
               List(cfg.old.target_group_arns \ cfg.target_group_arns))
         \o Steps("AttachLoadBalancerTargetGroups", "LoadBalancerTargetGroupsAdded",
                  List(cfg.target_group_arns \ cfg.old.target_group_arns))
    ELSE <<>>

\* Mutant: the target groups are reconciled before the load balancers.
MutAttachmentSteps(cfg) == TargetGroupSteps(cfg) \o LoadBalancerSteps(cfg)

\* Lines 1049-1186: load_balancers first, then target_group_arns.
AttachmentSteps(cfg) == LoadBalancerSteps(cfg) \o TargetGroupSteps(cfg)

\* shouldWaitForCapacity (lines 923-926 and 949-952)
shouldWaitForCapacity(cfg) ==
    HasChange(cfg, "desired_capacity") \/ HasChange(cfg, "min_size")

\* Mutant: the metrics are reconciled before the capacity wait.
MutUpdateStages(cfg) ==
    SelectSeq(
        << <<"attach", HasChange(cfg, "load_balancers")
                          \/ HasChange(cfg, "target_group_arns")>>,
           <<"disableMetrics", cfg.old.enabled_metrics \ cfg.enabled_metrics /= {}>>,
           <<"enableMetrics", cfg.enabled_metrics \ cfg.old.enabled_metrics /= {}>>,
           <<"waitCapacity", HasChange(cfg, "desired_capacity")
                                \/ HasChange(cfg, "min_size")>>,
           <<"resume", cfg.old.suspended_processes \ cfg.suspended_processes /= {}>>,
           <<"suspend", cfg.suspended_processes \ cfg.old.suspended_processes /= {}>>,
           <<"read", TRUE>> >>,
        LAMBDA st : st[2])

\* The stages of update after UpdateAutoScalingGroup, in the order of the
\* code, each with the condition under which update enters it.
UpdateStages(cfg) ==
    SelectSeq(
        << <<"attach", HasChange(cfg, "load_balancers")
                          \/ HasChange(cfg, "target_group_arns")>>,
           <<"waitCapacity", shouldWaitForCapacity(cfg)>>,
           <<"disableMetrics", cfg.old.enabled_metrics \ cfg.enabled_metrics /= {}>>,
           <<"enableMetrics", cfg.enabled_metrics \ cfg.old.enabled_metrics /= {}>>,
           <<"resume", cfg.old.suspended_processes \ cfg.suspended_processes /= {}>>,
           <<"suspend", cfg.suspended_processes \ cfg.old.suspended_processes /= {}>>,
           <<"read", TRUE>> >>,
        LAMBDA st : st[2])

\* The stage update enters after stage `stage` ("" for the first one).
StageAfter(cfg, stage) ==
    LET S == UpdateStages(cfg)
        at == IF stage = "" THEN 0
              ELSE CHOOSE i \in 1..Len(S) : S[i][1] = stage
    IN  S[at + 1][1]

\* The fields of the UpdateAutoScalingGroup request: the changed ones.
Changed(cfg, attr) == IF HasChange(cfg, attr) THEN cfg[attr] ELSE NIL

\* Lines 1020-1032: the key-to-value map of the tags that are propagated at
\* launch, as the set of its pairs.  d.tags and d.old.tags are the merged
\* collections of the attributes tag and tags, one tag for a key.
PropagatedTags(tags) ==
    {<<t.key, t.value>> : t \in {x \in tags : x.propagate_at_launch}}

\* Mutant: the propagated tags are compared by their keys alone.
MutTagsRefresh(cfg) ==
    {p[1] : p \in PropagatedTags(cfg.old.tags)}
        /= {p[1] : p \in PropagatedTags(cfg.tags)}

\* Lines 1004 and 1020-1036: the tags changed and the maps of the propagated
\* tags differ (reflect.DeepEqual).
TagsRefresh(cfg) ==
    /\ HasChange(cfg, "tags")
    /\ PropagatedTags(cfg.old.tags) /= PropagatedTags(cfg.tags)

\* The attributes whose change makes update set shouldRefreshInstances
\* (lines 927-947 and 971-987).
RefreshAttributes ==
    {"launch_configuration", "launch_template", "mixed_instances_policy",
     "vpc_zone_identifier", "availability_zones", "placement_group"}

\* Mutant: a change of the placement group does not count.
MutShouldRefreshInstances(cfg) ==
    \/ \E a \in RefreshAttributes \ {"placement_group"} : HasChange(cfg, a)
    \/ TagsRefresh(cfg)

\* shouldRefreshInstances when update reaches UpdateAutoScalingGroup
\* (lines 911-1037).
shouldRefreshInstances(cfg) ==
    \/ \E a \in RefreshAttributes : HasChange(cfg, a)
    \/ TagsRefresh(cfg)

\* Lines 1004-1018: keyvaluetags.AutoscalingUpdateTags, made when the tags
\* changed, with its result.
\* The fields of autoscaling.UpdateAutoScalingGroupInput that update fills,
\* the group name apart.
OptsFields ==
    {"NewInstancesProtectedFromScaleIn", "DefaultCooldown", "DesiredCapacity",
     "LaunchConfigurationName", "LaunchTemplate", "MixedInstancesPolicy",
     "MinSize", "MaxSize", "MaxInstanceLifetime", "HealthCheckGracePeriod",
     "HealthCheckType", "VPCZoneIdentifier", "AvailabilityZones",
     "PlacementGroup", "TerminationPolicies", "ServiceLinkedRoleARN"}

\* Mutant: every field is filled, whatever changed.
MutUpdateOptsFields(cfg) == OptsFields

\* Lines 913-1002: the fields of opts that are not nil when the request is
\* sent.
UpdateOptsFields(cfg) ==
    {"NewInstancesProtectedFromScaleIn"}
    \cup (IF HasChange(cfg, "default_cooldown") THEN {"DefaultCooldown"} ELSE {})
    \cup (IF HasChange(cfg, "desired_capacity") THEN {"DesiredCapacity"} ELSE {})
    \cup (IF HasChange(cfg, "launch_configuration") /\ cfg.launch_configuration
          THEN {"LaunchConfigurationName"} ELSE {})
    \cup (IF HasChange(cfg, "launch_template") /\ cfg.launch_template /= "none"
          THEN {"LaunchTemplate"} ELSE {})
    \cup (IF HasChange(cfg, "mixed_instances_policy") /\ cfg.mixed_instances_policy
          THEN {"MixedInstancesPolicy"} ELSE {})
    \cup (IF HasChange(cfg, "min_size") THEN {"MinSize"} ELSE {})
    \cup (IF HasChange(cfg, "max_size") THEN {"MaxSize"} ELSE {})
    \cup (IF HasChange(cfg, "max_instance_lifetime")
          THEN {"MaxInstanceLifetime"} ELSE {})
    \cup (IF HasChange(cfg, "health_check_grace_period")
             \/ HasChange(cfg, "health_check_type")
          THEN {"HealthCheckGracePeriod"} ELSE {})
    \cup (IF HasChange(cfg, "health_check_type") THEN {"HealthCheckType"} ELSE {})
    \cup (IF HasChange(cfg, "vpc_zone_identifier") THEN {"VPCZoneIdentifier"} ELSE {})
    \cup (IF HasChange(cfg, "availability_zones") /\ GetOkSet(cfg.availability_zones)
          THEN {"AvailabilityZones"} ELSE {})
    \cup (IF HasChange(cfg, "placement_group") THEN {"PlacementGroup"} ELSE {})
    \cup (IF HasChange(cfg, "termination_policies")
          THEN {"TerminationPolicies"} ELSE {})
    \cup (IF HasChange(cfg, "service_linked_role_arn")
          THEN {"ServiceLinkedRoleARN"} ELSE {})

\* Mutant: the configured list is sent as it is, empty or not.
MutUpdateTerminationPolicies(cfg) == cfg.termination_policies

\* Lines 989-998: the termination policies update sends when they changed:
\* the configured list, or "Default" alone when none is configured.
UpdateTerminationPolicies(cfg) ==
    IF GetOkList(cfg.termination_policies)
    THEN cfg.termination_policies ELSE <<"Default">>

\* Lines 913-1002: the value a field of opts is filled with.  The
\* VPCZoneIdentifier is given as what expandVpcZoneIdentifiers joins: as
\* many empty strings as there are identifiers, then the identifiers.
UpdateOptsValue(cfg, f) ==
    CASE f = "NewInstancesProtectedFromScaleIn" -> cfg.protect_from_scale_in
      [] f = "DefaultCooldown" -> cfg.default_cooldown
      [] f = "DesiredCapacity" -> cfg.desired_capacity
      [] f = "LaunchConfigurationName" -> cfg.launch_configuration
      [] f = "LaunchTemplate" -> cfg.launch_template
      [] f = "MixedInstancesPolicy" -> cfg.mixed_instances_policy
      [] f = "MinSize" -> cfg.min_size
      [] f = "MaxSize" -> cfg.max_size
      [] f = "MaxInstanceLifetime" -> cfg.max_instance_lifetime
      [] f = "HealthCheckGracePeriod" -> cfg.health_check_grace_period
      [] f = "HealthCheckType" -> cfg.health_check_type
      [] f = "VPCZoneIdentifier" ->
            [empty |-> Cardinality(cfg.vpc_zone_identifier),
             ids |-> StringList(cfg.vpc_zone_identifier)]
      [] f = "AvailabilityZones" -> List(cfg.availability_zones)
      [] f = "PlacementGroup" -> cfg.placement_group
      [] f = "TerminationPolicies" -> UpdateTerminationPolicies(cfg)
      [] f = "ServiceLinkedRoleARN" -> cfg.service_linked_role_arn

\* opts as update sends it: the fields that are set, each with its value.
UpdateOpts(cfg) ==
    [f \in UpdateOptsFields(cfg) |-> UpdateOptsValue(cfg, f)]

\* Mutant: update puts the initial lifecycle hooks when they changed.
MutUpdateHooks(cfg) ==
    IF HasChange(cfg, "initial_lifecycle_hook")
    THEN [i \in 1..Cardinality(cfg.initial_lifecycle_hook) |->
            Req("PutLifecycleHook", cfg.id, NIL, NIL, NIL, <<i>>, "ok")]
    ELSE <<>>

\* Lines 908-1207: the lifecycle-hook calls of update.  Update reads
\* initial_lifecycle_hook nowhere and makes none.
UpdateHooks(cfg) == <<>>

TagsCall(cfg, res) ==
    IF HasChange(cfg, "tags")
    THEN <<Req("AutoscalingUpdateTags", cfg.id, NIL, NIL, NIL, <<>>, res)>>
    ELSE <<>>

\* Lines 1004-1037: the tags are updated first when they changed; an error
\* of that call ends update, and after its success the request of the group
\* is still to be sent.
UpdateTags ==
    /\ op = "update" /\ pc = "start" /\ HasChange(d, "tags")
    /\ \E tres \in {"ok", "error"} :
        /\ calls' = calls \o TagsCall(d, tres)
        /\ pc' = IF tres = "ok" THEN "update" ELSE "done"
        /\ ret' = IF tres = "ok" THEN ret ELSE "ErrTags"
    /\ UNCHANGED <<op, d, loc, w>>

\* Lines 908-1002 and 1039-1047: the request is built from the changed
\* attributes and sent, at once when the tags did not change and after the
\* tags call otherwise; after its success the refresh token is set when
\* shouldRefreshInstances.  The batches update goes on to send are a
\* function of the attributes alone and are laid out here, in loc.steps.
UpdateStart ==
    /\ op = "update"
    /\ \/ pc = "start" /\ ~HasChange(d, "tags")
       \/ pc = "update"
    /\ \E res \in {"ok", "error"} :
        /\ calls' = Append(calls,
                           [Req("UpdateAutoScalingGroup", d.id,
                                Changed(d, "min_size"), Changed(d, "max_size"),
                                Changed(d, "desired_capacity"), <<>>, res)
                            EXCEPT !.opts = UpdateOpts(d)])
                    \o (IF res = "ok" THEN UpdateHooks(d) ELSE <<>>)
        /\ pc' = IF res = "ok" THEN StageAfter(d, "") ELSE "done"
        /\ ret' = IF res = "ok" THEN ret ELSE "ErrUpdate"
        /\ loc' = IF res = "ok"
                  THEN [loc EXCEPT !.steps = AttachmentSteps(d)]
                  ELSE loc
        /\ d' = IF res = "ok" /\ shouldRefreshInstances(d)
                THEN [d EXCEPT !.instance_refresh_token = @ + 1]
                ELSE d
    /\ UNCHANGED <<op, w>>

\* Mutant: the error of an attach or detach call is logged and update goes
\* on to the wait.
MutUpdateAttach ==
    /\ op = "update" /\ pc = "attach"
    /\ \E res \in {"ok", "error"} :
        LET step == Head(loc.steps) IN
        /\ calls' = Append(calls,
               Req(step.api, d.id, NIL, NIL, NIL, step.batch, res))
        /\ pc' = "wait"
        /\ ret' = ret
        /\ w' = [kind |-> step.wait, token |-> 0, pass |-> <<>>,
                 status |-> "running"]
    /\ UNCHANGED <<op, d, loc>>

\* Lines 1075-1083, 1102-1110, 1145-1152, 1171-1179: the next batch is
\* detached or attached; its wait starts when the call succeeded.
UpdateAttach ==
    /\ op = "update" /\ pc = "attach"
    /\ \E res \in {"ok", "error"} :
        LET step == Head(loc.steps) IN
        /\ calls' = Append(calls,
               Req(step.api, d.id, NIL, NIL, NIL, step.batch, res))
        /\ pc' = IF res = "ok" THEN "wait" ELSE "done"
        /\ ret' = IF res = "ok" THEN ret ELSE "ErrAttach"
        /\ w' = IF res = "ok"
                THEN [kind |-> step.wait, token |-> 0, pass |-> <<>>,
                      status |-> "running"]
                ELSE w
    /\ UNCHANGED <<op, d, loc>>

\* What a page of DescribeLoadBalancers / DescribeLoadBalancerTargetGroups
\* holds: the states of its items.
PageContents ==
    {{}, {"InService"}, {"Adding", "InService"}, {"Removing", "InService"}}

\* The answers to one describe of a wait: an error, or a page with or
\* without a token for the next page.
PageAnswers ==
    {[res |-> "error", states |-> {}, next |-> FALSE]}
    \cup {[res |-> "ok", states |-> c, next |-> n] :
            c \in PageContents, n \in BOOLEAN}

\* The page a request with this token asks for (no token: the first).
PageOf(token) == IF token = 0 THEN 1 ELSE token

\* Mutant: after a page with an item in the watched state the wait goes on
\* with the token it has.
MutWaitLoop(watched, token, a) ==
    IF a.res = "error" THEN [end |-> "error", token |-> token]
    ELSE IF watched \in a.states /\ a.next
         THEN [end |-> "", token |-> PageOf(token) + 1]
         ELSE IF watched \in a.states THEN [end |-> "", token |-> 0]
         ELSE IF ~a.next THEN [end |-> "ok", token |-> token]
              ELSE [end |-> "", token |-> PageOf(token) + 1]

\* Mutant: after an error of the describe the wait asks again.
MutWaitLoopError(watched, token, a) ==
    IF a.res = "error" \/ watched \in a.states THEN [end |-> "", token |-> 0]
    ELSE IF ~a.next THEN [end |-> "ok", token |-> token]
         ELSE [end |-> "", token |-> PageOf(token) + 1]

\* One turn of the loop of a wait (lines 842-867, 878-903, 1753-1778,
\* 1789-1814) on the answer a to the request with this token: the wait
\* returns (end is "error" or "ok") or asks again with the new token.
WaitLoop(watched, token, a) ==
    IF a.res = "error" THEN [end |-> "error", token |-> token]
    ELSE IF watched \in a.states THEN [end |-> "", token |-> 0]
         ELSE IF ~a.next THEN [end |-> "ok", token |-> token]
              ELSE [end |-> "", token |-> PageOf(token) + 1]

\* One describe of the wait `kind`, which watches for the state `watched`,
\* answered with one of `answers`.  w.pass holds the requests of the wait
\* since its last request without a token, each with its answer; calls gets
\* one entry when the wait returns.  With `count` the answers after which the
\* wait asks again are counted in loc.n.
WaitTurn(kind, watched, answers, count) ==
    /\ op = "update" /\ pc = "wait" /\ w.kind = kind
    /\ \E a \in answers :
        LET r == WaitLoop(watched, w.token, a)
            entry == [token |-> w.token, res |-> a.res, states |-> a.states,
                      next |-> IF a.next THEN PageOf(w.token) + 1 ELSE 0]
            last == Len(loc.steps) = 1
        IN
        /\ w' = [w EXCEPT
                  !.token = r.token,
                  !.pass = IF w.token = 0 THEN <<entry>> ELSE Append(@, entry),
                  !.status = IF r.end = "" THEN @ ELSE r.end]
        /\ calls' = IF r.end = "" THEN calls
                    ELSE Append(calls, Req(kind, d.id, NIL, NIL, NIL, <<>>, r.end))
        /\ loc' = [loc EXCEPT !.n = IF r.end = "" /\ count THEN @ + 1 ELSE @,
                              !.steps = IF r.end = "ok" THEN Tail(@) ELSE @]
        /\ pc' = CASE r.end = "" -> pc
                   [] r.end = "error" -> "done"
                   [] r.end = "ok" /\ ~last -> "attach"
                   [] OTHER -> StageAfter(d, "attach")
        /\ ret' = IF r.end = "error" THEN "ErrWait" ELSE ret
    /\ UNCHANGED <<op, d>>

\* One describe of a wait in the executions where the provider makes the
\* waits of an update ask again at most MaxRetries times.
WaitStep(kind, watched) ==
    WaitTurn(kind, watched,
             Outcomes({x \in PageAnswers : WaitLoop(watched, w.token, x).end /= ""},
                      {x \in PageAnswers : WaitLoop(watched, w.token, x).end = ""}),
             TRUE)

\* Lines 1783-1817
waitUntilAutoscalingGroupLoadBalancersRemoved ==
    WaitStep("LoadBalancersRemoved", "Removing")

\* Lines 1747-1781
waitUntilAutoscalingGroupLoadBalancersAdded ==
    WaitStep("LoadBalancersAdded", "Adding")

\* Lines 836-870
waitUntilAutoscalingGroupLoadBalancerTargetGroupsRemoved ==
    WaitStep("LoadBalancerTargetGroupsRemoved", "Removing")

\* Lines 872-906
waitUntilAutoscalingGroupLoadBalancerTargetGroupsAdded ==
    WaitStep("LoadBalancerTargetGroupsAdded", "Adding")

\* Mutant: the difference is the whole first set.
MutDifference(a, b) == a

\* (*schema.Set).Difference: the members of a that are not in b.
Difference(a, b) == a \ b

\* One call of the tail of update: the stage, the API, the names it carries
\* and the error update returns when it fails.  The locals of the last wait
\* are gone by then.
UpdateCall(stage, api, names, err) ==
    /\ op = "update" /\ pc = stage
    /\ \E res \in {"ok", "error"} :
        /\ calls' = Append(calls, Req(api, d.id, NIL, NIL, NIL, names, res))
        /\ pc' = IF res = "ok" THEN StageAfter(d, stage) ELSE "done"
        /\ ret' = IF res = "ok" THEN ret ELSE err
    /\ w' = NoWait
    /\ UNCHANGED <<op, d, loc>>

\* Lines 1188-1192: waitForASGCapacity(d, meta, capacitySatisfiedUpdate).
UpdateWaitCapacity ==
    UpdateCall("waitCapacity", "waitForASGCapacity", <<>>, "ErrCapacity")

\* Lines 1447-1458 (updateASGMetricsCollection)
UpdateDisableMetrics ==
    UpdateCall("disableMetrics", "DisableMetricsCollection",
               List(Difference(d.old.enabled_metrics, d.enabled_metrics)), "ErrMetrics")

\* Lines 1460-1472 (updateASGMetricsCollection)
UpdateEnableMetrics ==
    UpdateCall("enableMetrics", "EnableMetricsCollection",
               List(Difference(d.enabled_metrics, d.old.enabled_metrics)), "ErrMetrics")

\* Lines 1404-1415 (updateASGSuspendedProcesses)
UpdateResumeProcesses ==
    UpdateCall("resume", "ResumeProcesses",
               List(Difference(d.old.suspended_processes, d.suspended_processes)),
               "ErrSuspendedProcesses")

\* Lines 1417-1428 (updateASGSuspendedProcesses)
UpdateSuspendProcesses ==
    UpdateCall("suspend", "SuspendProcesses",
               List(Difference(d.suspended_processes, d.old.suspended_processes)),
               "ErrSuspendedProcesses")

\* Line 1206 and lines 722-834: the group is read back, which sets the
\* attributes from the group the provider reports.  loc keeps the locals of
\* read and, in `planned`, the resource data update worked with.
UpdateRead ==
    /\ op = "update" /\ pc = "read"
    /\ \E a \in DescribeAnswers(d.id, 0..MaxCap),
          g \in ReportedGroups(d) \cup {<<>>} :
        LET r == getAwsAutoscalingGroup(d.id, a) IN
        /\ IF r.found THEN g /= <<>> /\ g.DesiredCapacity = a.cap
                      ELSE g = <<>>
        /\ calls' = Append(calls, [Describe(d.id, a) EXCEPT !.group = g])
        /\ ret' = IF r.err THEN "ErrRead" ELSE "ok"
        /\ d' = ReadSet(d, r, g)
        /\ loc' = [n |-> loc.n, i |-> loc.i, steps |-> loc.steps,
                   found |-> r.found, ok |-> GetOkList(d.termination_policies),
                   TerminationPolicies |->
                       IF r.found THEN g.TerminationPolicies ELSE <<>>,
                   planned |-> d]
    /\ pc' = "done"
    /\ w' = NoWait
    /\ UNCHANGED op

\* A prior and a new value of a set attribute: `both` common names (0 or 1),
\* `gone` names only in the prior value, `come` names only in the new one.
OldSet(both, gone) == (1..both) \cup ((both + 1)..(both + gone))
NewSet(both, gone, come) ==
    (1..both) \cup ((both + gone + 1)..(both + gone + come))

\* The attributes of an update: the group exists (the ID is set).
UpdateConfig(min, des, lb, tg, metr, susp) ==
    [Config(min, MaxCap, des, 0, TRUE, "none", FALSE,
            NewSet(susp[1], susp[2], susp[3]), NewSet(metr[1], metr[2], metr[3]),
            FALSE)
     EXCEPT !.id = asgName,
            !.load_balancers = NewSet(lb[1], lb[2], lb[3]),
            !.target_group_arns = NewSet(tg[1], tg[2], tg[3]),
            !.old.min_size = 0, !.old.max_size = MaxCap,
            !.old.desired_capacity = 0,
            !.old.suspended_processes = OldSet(susp[1], susp[2]),
            !.old.enabled_metrics = OldSet(metr[1], metr[2]),
            !.old.load_balancers = OldSet(lb[1], lb[2]),
            !.old.target_group_arns = OldSet(tg[1], tg[2])]

\* The changes of a set attribute: the numbers of names gone and come are
\* taken from `sizes`.
SetChanges(sizes) ==
    {<<both, gone, come>> : both \in 0..1, gone \in sizes, come \in sizes}

\* The lengths of the lists of names to detach or attach: none, one, a full
\* batch, a full batch and one more, and the longest list.
ListSizes == {0, 1, batchSize, batchSize + 1, MaxNames}

\* The number of attributes a configuration changes.
NumChanged(cfg) ==
    Cardinality({a \in DOMAIN cfg.old : HasChange(cfg, a)})

\* The tags of the model and the merged tag collections: one tag for a key.
TagSet == [key : 1..MaxTags, value : 1..2, propagate_at_launch : BOOLEAN]
TagCollections ==
    {c \in SUBSET TagSet : \A x \in c, y \in c : x.key = y.key => x = y}

\* The attributes that the updates without a change of load balancers and
\* target groups change.
HeadAttributes ==
    {"min_size", "max_size", "desired_capacity", "enabled_metrics",
     "suspended_processes", "launch_configuration", "launch_template",
     "mixed_instances_policy", "placement_group", "availability_zones",
     "vpc_zone_identifier", "tags", "initial_lifecycle_hook",
     "default_cooldown", "max_instance_lifetime", "health_check_grace_period",
     "health_check_type", "service_linked_role_arn", "protect_from_scale_in",
     "termination_policies"}

\* The prior and the new value of an attribute that does not change.
Unchanged(attr) ==
    CASE attr = "min_size" -> <<0, 0>>
      [] attr = "max_size" -> <<MaxCap, MaxCap>>
      [] attr = "desired_capacity" -> <<0, 0>>
      [] attr = "enabled_metrics" -> <<{}, {}>>
      [] attr = "suspended_processes" -> <<{}, {}>>
      [] attr = "launch_configuration" -> <<FALSE, FALSE>>
      [] attr = "launch_template" -> <<"none", "none">>
      [] attr = "mixed_instances_policy" -> <<TRUE, TRUE>>
      [] attr = "placement_group" -> <<"", "">>
      [] attr = "availability_zones" -> <<{1}, {1}>>
      [] attr = "vpc_zone_identifier" -> <<{}, {}>>
      [] attr = "tags" -> <<{}, {}>>
      [] attr = "initial_lifecycle_hook" -> <<{}, {}>>
      [] attr = "default_cooldown" -> <<0, 0>>
      [] attr = "max_instance_lifetime" -> <<0, 0>>
      [] attr = "health_check_grace_period" -> <<300, 300>>
      [] attr = "health_check_type" -> <<"EC2", "EC2">>
      [] attr = "service_linked_role_arn" -> <<"", "">>
      [] attr = "protect_from_scale_in" -> <<FALSE, FALSE>>
      [] attr = "termination_policies" -> <<<<>>, <<>>>>

\* The prior and new values of an attribute that changes.
Changes(attr) ==
    CASE attr = "min_size" -> {<<0, 1>>, <<1, 0>>}
      [] attr = "max_size" -> {<<MaxCap, MaxCap + 1>>, <<MaxCap + 1, MaxCap>>}
      [] attr = "desired_capacity" -> {<<0, 1>>, <<1, 0>>}
      [] attr = "enabled_metrics" -> {<<{1}, {}>>, <<{}, {1}>>, <<{1, 2}, {1, 3}>>}
      [] attr = "suspended_processes" -> {<<{1}, {}>>, <<{}, {1}>>, <<{1}, {2}>>}
      [] attr = "launch_configuration" -> {<<FALSE, TRUE>>, <<TRUE, FALSE>>}
      [] attr = "launch_template" ->
            {<<"none", "id">>, <<"id", "none">>, <<"id", "name">>}
      [] attr = "mixed_instances_policy" -> {<<FALSE, TRUE>>, <<TRUE, FALSE>>}
      [] attr = "placement_group" -> {<<"", "pg">>, <<"pg", "">>}
      [] attr = "availability_zones" -> {<<{1}, {1, 2}>>, <<{1}, {}>>}
      [] attr = "vpc_zone_identifier" -> {<<{}, {"1"}>>, <<{"1"}, {"2"}>>}
      [] attr = "tags" ->
            {<<o, n>> : o \in TagCollections, n \in TagCollections} \
                {<<c, c>> : c \in TagCollections}
      [] attr = "initial_lifecycle_hook" ->
            {<<{}, 1..MaxHooks>>, <<{1}, {}>>, <<{1}, 1..MaxHooks>>}
      [] attr = "default_cooldown" -> {<<0, 300>>, <<300, 0>>}
      [] attr = "max_instance_lifetime" -> {<<0, 604800>>, <<604800, 0>>}
      [] attr = "health_check_grace_period" -> {<<300, 0>>, <<0, 300>>}
      [] attr = "health_check_type" -> {<<"EC2", "ELB">>, <<"ELB", "EC2">>}
      [] attr = "service_linked_role_arn" -> {<<"", "arn:1">>, <<"arn:1", "arn:2">>}
      [] attr = "protect_from_scale_in" -> {<<FALSE, TRUE>>, <<TRUE, FALSE>>}
      [] attr = "termination_policies" ->
            {<<<<"OldestInstance">>, <<>>>>, <<<<>>, <<"OldestInstance">>>>,
             <<<<"Default">>, <<>>>>, <<<<"OldestInstance">>, <<"Default">>>>}

\* The values of an attribute in an update that changes the attributes A.
Values(attr, A) == IF attr \in A THEN Changes(attr) ELSE {Unchanged(attr)}

\* The resource data of an update from the prior and the new value of each
\* attribute.
HeadConfig(mn, mx, de, me, su, lc, lt, mip, pg, az, vpc, tags, hk, x) ==
    [Config(mn[2], mx[2], de[2], 0, lc[2], lt[2], mip[2], su[2], me[2], FALSE)
     EXCEPT !.id = asgName,
            !.placement_group = pg[2], !.availability_zones = az[2],
            !.vpc_zone_identifier = vpc[2], !.tags = tags[2],
            !.initial_lifecycle_hook = hk[2],
            !.default_cooldown = x.default_cooldown[2],
            !.max_instance_lifetime = x.max_instance_lifetime[2],
            !.health_check_grace_period = x.health_check_grace_period[2],
            !.health_check_type = x.health_check_type[2],
            !.service_linked_role_arn = x.service_linked_role_arn[2],
            !.protect_from_scale_in = x.protect_from_scale_in[2],
            !.termination_policies = x.termination_policies[2],
            !.old = [min_size |-> mn[1], max_size |-> mx[1],
                     desired_capacity |-> de[1],
                     initial_lifecycle_hook |-> hk[1],
                     default_cooldown |-> x.default_cooldown[1],
                     max_instance_lifetime |-> x.max_instance_lifetime[1],
                     health_check_grace_period |-> x.health_check_grace_period[1],
                     health_check_type |-> x.health_check_type[1],
                     service_linked_role_arn |-> x.service_linked_role_arn[1],
                     protect_from_scale_in |-> x.protect_from_scale_in[1],
                     termination_policies |-> x.termination_policies[1],
                     suspended_processes |-> su[1], enabled_metrics |-> me[1],
                     load_balancers |-> {}, target_group_arns |-> {},
                     launch_configuration |-> lc[1], launch_template |-> lt[1],
                     mixed_instances_policy |-> mip[1],
                     placement_group |-> pg[1], availability_zones |-> az[1],
                     vpc_zone_identifier |-> vpc[1], tags |-> tags[1]]]

\* The updates that change load balancers or target groups: at most
\* MaxChanged attributes change, the names attached or detached are at most
\* MaxNames together, and at most one of the four lists has more than one.
InitAttachments ==
    \E lb \in SetChanges(ListSizes), tg \in {x \in SetChanges(ListSizes) : x[1] = 0} :
        /\ lb[2] + lb[3] + tg[2] + tg[3] <= MaxNames
        /\ Cardinality({i \in 1..4 : <<lb[2], lb[3], tg[2], tg[3]>>[i] > 1}) <= 1
        /\ \E min \in 0..MaxCap, des \in 0..MaxCap,
              metr \in SetChanges(0..1), susp \in {x \in SetChanges(0..1) : x[1] = 0} :
            /\ d = UpdateConfig(min, des, lb, tg, metr, susp)
            /\ NumChanged(d) <= MaxChanged

\* The updates that leave load balancers and target groups alone: at most
\* MaxChanged of the other attributes change; launch_configuration and
\* launch_template conflict in the schema.
InitHead ==
    \E A \in {S \in SUBSET HeadAttributes : Cardinality(S) <= MaxChanged} :
        \E mn \in Values("min_size", A), mx \in Values("max_size", A),
           de \in Values("desired_capacity", A),
           me \in Values("enabled_metrics", A),
           su \in Values("suspended_processes", A),
           lc \in Values("launch_configuration", A),
           lt \in Values("launch_template", A),
           mip \in Values("mixed_instances_policy", A),
           pg \in Values("placement_group", A),
           az \in Values("availability_zones", A),
           vpc \in Values("vpc_zone_identifier", A),
           tags \in Values("tags", A),
           hk \in Values("initial_lifecycle_hook", A),
           x \in [default_cooldown : Values("default_cooldown", A),
                  max_instance_lifetime : Values("max_instance_lifetime", A),
                  health_check_grace_period : Values("health_check_grace_period", A),
                  health_check_type : Values("health_check_type", A),
                  service_linked_role_arn : Values("service_linked_role_arn", A),
                  protect_from_scale_in : Values("protect_from_scale_in", A),
                  termination_policies : Values("termination_policies", A)] :
            /\ \A k \in 1..2 : ~(lc[k] /\ lt[k] /= "none")
            /\ d = HeadConfig(mn, mx, de, me, su, lc, lt, mip, pg, az, vpc, tags, hk, x)

InitUpdate ==
    /\ op = "update" /\ pc = "start"
    /\ InitAttachments \/ InitHead
    /\ calls = <<>> /\ loc = NoLocals /\ w = NoWait /\ ret = "none"

NextUpdate ==
    \/ UpdateTags
    \/ UpdateStart
    \/ UpdateAttach
    \/ waitUntilAutoscalingGroupLoadBalancersRemoved
    \/ waitUntilAutoscalingGroupLoadBalancersAdded
    \/ waitUntilAutoscalingGroupLoadBalancerTargetGroupsRemoved
    \/ waitUntilAutoscalingGroupLoadBalancerTargetGroupsAdded
    \/ UpdateWaitCapacity
    \/ UpdateDisableMetrics
    \/ UpdateEnableMetrics
    \/ UpdateResumeProcesses
    \/ UpdateSuspendProcesses
    \/ UpdateRead

SpecUpdate == InitUpdate /\ [][NextUpdate]_vars

\* ------------------------------------------ update, waits without a bound
\* The answers of a provider whose lists have at most MaxPages pages.
LiveAnswers(token) ==
    {x \in PageAnswers : x.next => PageOf(token) < MaxPages}

\* The four waits when nothing limits how often the provider makes them ask
\* again (lines 1783-1817, 1747-1781, 836-870, 872-906).
LoadBalancersRemovedLoop ==
    WaitTurn("LoadBalancersRemoved", "Removing", LiveAnswers(w.token), FALSE)

LoadBalancersAddedLoop ==
    WaitTurn("LoadBalancersAdded", "Adding", LiveAnswers(w.token), FALSE)

LoadBalancerTargetGroupsRemovedLoop ==
    WaitTurn("LoadBalancerTargetGroupsRemoved", "Removing",
             LiveAnswers(w.token), FALSE)

LoadBalancerTargetGroupsAddedLoop ==
    WaitTurn("LoadBalancerTargetGroupsAdded", "Adding",
             LiveAnswers(w.token), FALSE)

\* The updates that change nothing but load balancers and target groups, by
\* at most one name in each direction.
InitWaits ==
    /\ op = "update" /\ pc = "start"
    /\ \E lb \in SetChanges(0..1), tg \in {x \in SetChanges(0..1) : x[1] = 0} :
        /\ d = UpdateConfig(0, 0, lb, tg, <<0, 0, 0>>, <<0, 0, 0>>)
        /\ NumChanged(d) >= 1
    /\ calls = <<>> /\ loc = NoLocals /\ w = NoWait /\ ret = "none"

NextWaits ==
    \/ UpdateStart
    \/ UpdateAttach
    \/ LoadBalancersRemovedLoop
    \/ LoadBalancersAddedLoop
    \/ LoadBalancerTargetGroupsRemovedLoop
    \/ LoadBalancerTargetGroupsAddedLoop
    \/ UpdateRead

\* Update keeps running: a step it can take is taken.
SpecWaits == InitWaits /\ [][NextWaits]_vars /\ WF_vars(NextWaits)

\* ------------------------------------------------- vpc_zone_identifier
\* Strings are sequences of characters here, so that joining and splitting
\* act on the commas.  The subnet identifiers of the model hold no comma.
SubnetIds == {<<"a">>, <<"b">>, <<"a", "b">>, <<"b", "a">>}

\* (*schema.Set).List() of vpc_zone_identifier: up to MaxSubnets distinct
\* identifiers in the order of the set.
SubnetLists ==
    {l \in UNION {[1..n -> SubnetIds] : n \in 0..MaxSubnets} :
        \A i \in 1..Len(l), j \in 1..Len(l) : l[i] = l[j] => i = j}

\* strings.Join(strs, ",")
RECURSIVE Join(_)
Join(strs) ==
    IF Len(strs) = 0 THEN <<>>
    ELSE IF Len(strs) = 1 THEN strs[1]
    ELSE strs[1] \o <<",">> \o Join(Tail(strs))

\* strings.Split(s, ","): the pieces between the commas, empty ones
\* included; one empty piece for the empty string.
RECURSIVE Split(_)
Split(s) ==
    IF \A k \in 1..Len(s) : s[k] /= "," THEN <<s>>
    ELSE LET k == CHOOSE i \in 1..Len(s) :
                     s[i] = "," /\ \A j \in 1..(i - 1) : s[j] /= ","
         IN  <<SubSeq(s, 1, k - 1)>> \o Split(SubSeq(s, k + 1, Len(s)))

\* Lines 1534-1540: strs := make([]string, len(list)) holds len(list) empty
\* strings, the identifiers are appended to them, and the whole is joined.
expandVpcZoneIdentifiers(list) ==
    Join([i \in 1..Len(list) |-> <<>>] \o list)

\* Lines 826-831: vpc_zone_identifier as read sets it from the
\* VPCZoneIdentifier of the group.
ReadVpcZoneIdentifier(s) ==
    IF Len(s) > 0 THEN Split(s) ELSE <<>>

\* Lines 639-641 and 971-973: the VPCZoneIdentifier of the request is
\* expanded from the configured list (kept in loc.list).
ExpandVpc ==
    /\ op = "vpc_zone_identifier" /\ pc = "start"
    /\ ret' = expandVpcZoneIdentifiers(loc.list)
    /\ pc' = "sent"
    /\ UNCHANGED <<op, d, calls, loc, w>>

\* Lines 826-831: read sets the attribute from the VPCZoneIdentifier that
\* was sent; the attribute is a set (lines 278-285), so equal pieces are
\* one member.
ReadVpc ==
    /\ op = "vpc_zone_identifier" /\ pc = "sent"
    /\ d' = [d EXCEPT !.vpc_zone_identifier =
                 {ReadVpcZoneIdentifier(ret)[k] :
                     k \in 1..Len(ReadVpcZoneIdentifier(ret))}]
    /\ pc' = "done"
    /\ UNCHANGED <<op, calls, loc, w, ret>>

InitVpc ==
    /\ op = "vpc_zone_identifier" /\ pc = "start"
    /\ \E l \in SubnetLists :
        /\ loc = [list |-> l]
        /\ d = [vpc_zone_identifier |-> {l[k] : k \in 1..Len(l)}]
    /\ calls = <<>> /\ w = NoWait /\ ret = <<>>

NextVpc == ExpandVpc \/ ReadVpc

SpecVpc == InitVpc /\ [][NextVpc]_vars


\* ------------------- expandAutoScalingLaunchTemplateSpecification
\* A block of a launch template specification is a map from some of the
\* three keys to strings; a key may be missing and a string may be empty.
TemplateKeys == {"launch_template_id", "launch_template_name", "version"}

TemplateValues(key) ==
    CASE key = "launch_template_id" -> {"", "lt-1", "lt-2"}
      [] key = "launch_template_name" -> {"", "a", "b"}
      [] key = "version" -> {"", "1", "$Latest"}

TemplateMaps ==
    UNION {{m \in [K -> UNION {TemplateValues(k) : k \in K}] :
               \A k \in K : m[k] \in TemplateValues(k)} : K \in SUBSET TemplateKeys}

\* The lists the function is given: empty, a nil element, or one block.
TemplateLists ==
    {<<>>, <<[isNil |-> TRUE, m |-> <<>>]>>}
    \cup {<<[isNil |-> FALSE, m |-> m]>> : m \in TemplateMaps}

\* v, ok := m[key]; ok && v.(string) != ""
HasValue(m, key) == key \in DOMAIN m /\ m[key] /= ""

\* Mutant: the name is set whenever it is given, with the ID or without.
MutExpandAutoScalingLaunchTemplateSpecification(l) ==
    IF Len(l) = 0 \/ l[1].isNil THEN <<>>
    ELSE LET m == l[1].m
             fields ==
                 (IF HasValue(m, "launch_template_id") THEN {"LaunchTemplateId"} ELSE {})
                 \cup (IF HasValue(m, "launch_template_name")
                       THEN {"LaunchTemplateName"} ELSE {})
                 \cup (IF HasValue(m, "version") THEN {"Version"} ELSE {})
         IN  [f \in fields |->
                 CASE f = "LaunchTemplateId" -> m["launch_template_id"]
                   [] f = "LaunchTemplateName" -> m["launch_template_name"]
                   [] f = "Version" -> m["version"]]

\* Lines 1627-1652: the specification as the map of its fields that are
\* set (a field that stays nil is not in the domain).  The name is set only
\* while LaunchTemplateId is nil.
expandAutoScalingLaunchTemplateSpecification(l) ==
    IF Len(l) = 0 \/ l[1].isNil THEN <<>>
    ELSE LET m == l[1].m
             fields ==
                 (IF HasValue(m, "launch_template_id") THEN {"LaunchTemplateId"} ELSE {})
                 \cup (IF HasValue(m, "launch_template_name")
                          /\ ~HasValue(m, "launch_template_id")
                       THEN {"LaunchTemplateName"} ELSE {})
                 \cup (IF HasValue(m, "version") THEN {"Version"} ELSE {})
         IN  [f \in fields |->
                 CASE f = "LaunchTemplateId" -> m["launch_template_id"]
                   [] f = "LaunchTemplateName" -> m["launch_template_name"]
                   [] f = "Version" -> m["version"]]

\* The function is applied to the list in loc.l.
ExpandLaunchTemplate ==
    /\ op = "expandLaunchTemplate" /\ pc = "start"
    /\ ret' = expandAutoScalingLaunchTemplateSpecification(loc.l)
    /\ pc' = "done"
    /\ UNCHANGED <<op, d, calls, loc, w>>

InitLaunchTemplate ==
    /\ op = "expandLaunchTemplate" /\ pc = "start"
    /\ \E l \in TemplateLists : loc = [l |-> l]
    /\ d = <<>> /\ calls = <<>> /\ w = NoWait /\ ret = <<>>

NextLaunchTemplate == ExpandLaunchTemplate

SpecLaunchTemplate == InitLaunchTemplate /\ [][NextLaunchTemplate]_vars


\* --------------------------------------------- wait_for_capacity_timeout
\* The values of the attribute are strings, here sequences of characters of
\* at most MaxLen characters over an alphabet with a sign, two digits, the
\* letters of the units m, s and ms, and a letter of no unit.
TimeoutChars == {"-", "0", "1", "m", "s", "x"}
TimeoutValues == UNION {[1..n -> TimeoutChars] : n \in 0..MaxLen}

Digits == {"0", "1", "2", "3", "4", "5", "6", "7", "8", "9"}
DigitValue(c) ==
    CASE c = "0" -> 0 [] c = "1" -> 1 [] c = "2" -> 2 [] c = "3" -> 3
      [] c = "4" -> 4 [] c = "5" -> 5 [] c = "6" -> 6 [] c = "7" -> 7
      [] c = "8" -> 8 [] c = "9" -> 9

\* time.leadingInt: the value of the leading digits after v, and the rest.
RECURSIVE leadingInt(_, _)
leadingInt(s, v) ==
    IF s /= <<>> /\ Head(s) \in Digits
    THEN leadingInt(Tail(s), v * 10 + DigitValue(Head(s)))
    ELSE [v |-> v, rest |-> s]

\* The length of the unit at the head of s: the characters up to the next
\* digit or period.
RECURSIVE UnitLen(_)
UnitLen(s) ==
    IF s = <<>> \/ Head(s) \in Digits \/ Head(s) = "." THEN 0
    ELSE 1 + UnitLen(Tail(s))

\* time.unitMap, in milliseconds, for the units of the alphabet.
unitMap(u) ==
    CASE u = <<"m", "s">> -> 1
      [] u = <<"s">> -> 1000
      [] u = <<"m">> -> 60000
      [] OTHER -> 0

\* The loop of time.ParseDuration over the terms <digits><unit> of s, sum being
\* the sum so far.  Fractions are left out: a period is an error here, and
\* the alphabet has none.
RECURSIVE ParseTerms(_, _)
ParseTerms(s, sum) ==
    IF s = <<>> THEN [err |-> FALSE, d |-> sum]
    ELSE IF Head(s) \notin Digits THEN [err |-> TRUE, d |-> 0]
    ELSE LET li == leadingInt(s, 0)
             n == UnitLen(li.rest)
             u == SubSeq(li.rest, 1, n)
         IN  IF n = 0 \/ unitMap(u) = 0 THEN [err |-> TRUE, d |-> 0]
             ELSE ParseTerms(SubSeq(li.rest, n + 1, Len(li.rest)),
                             sum + li.v * unitMap(u))

\* time.ParseDuration: an optional sign, then "0" or one or more terms; the
\* duration is 0 whenever there is an error.
ParseDuration(s) ==
    LET signed == s /= <<>> /\ Head(s) \in {"-", "+"}
        neg == signed /\ Head(s) = "-"
        body == IF signed THEN Tail(s) ELSE s
        r == ParseTerms(body, 0)
    IN  IF body = <<"0">> THEN [err |-> FALSE, d |-> 0]
        ELSE IF body = <<>> THEN [err |-> TRUE, d |-> 0]
        ELSE IF r.err THEN r
        ELSE [err |-> FALSE, d |-> IF neg THEN 0 - r.d ELSE r.d]

\* Mutant: a duration of zero is an error as well.
MutValidateWaitForCapacityTimeout(value) ==
    (IF ParseDuration(value).err THEN <<"cannot be parsed as a duration">> ELSE <<>>)
    \o (IF ParseDuration(value).d <= 0 THEN <<"must be greater than zero">> ELSE <<>>)

\* Lines 297-309: the errors the ValidateFunc of wait_for_capacity_timeout
\* returns for a value.
ValidateWaitForCapacityTimeout(value) ==
    (IF ParseDuration(value).err THEN <<"cannot be parsed as a duration">> ELSE <<>>)
    \o (IF ParseDuration(value).d < 0 THEN <<"must be greater than zero">> ELSE <<>>)

\* The value in loc.value is validated.
ValidateTimeout ==
    /\ op = "wait_for_capacity_timeout" /\ pc = "start"
    /\ ret' = ValidateWaitForCapacityTimeout(loc.value)
    /\ pc' = "done"
    /\ UNCHANGED <<op, d, calls, loc, w>>

InitTimeout ==
    /\ op = "wait_for_capacity_timeout" /\ pc = "start"
    /\ \E v \in TimeoutValues : loc = [value |-> v]
    /\ d = <<>> /\ calls = <<>> /\ w = NoWait /\ ret = <<>>

NextTimeout == ValidateTimeout

SpecTimeout == InitTimeout /\ [][NextTimeout]_vars


\* ======================================================= OUTPOSTS LOOKUP
\* dataSourceAwsOutpostsOutpostRead.  An outpost is its ID and its name; a
\* page of ListOutposts is a list of at most MaxPageLen outposts and nil
\* pointers.
NilOutpost == [OutpostId |-> "", Name |-> "", nil |-> TRUE]
Outpost(id, name) == [OutpostId |-> id, Name |-> name, nil |-> FALSE]
Outposts ==
    {Outpost("op-1", "a"), Outpost("op-2", "a"), Outpost("op-2", "b"), NilOutpost}
OutpostPages == UNION {[1..n -> Outposts] : n \in 0..MaxPageLen}

\* The answers to ListOutposts for the request number k: an error, a nil
\* output, or a page with or without a next token; the provider has at most
\* MaxPages pages.  A token is the number of the page it names, 0 is none.
ListAnswers(k) ==
    {[res |-> "error", outposts |-> <<>>, next |-> 0],
     [res |-> "nil", outposts |-> <<>>, next |-> 0]}
    \cup {[res |-> "ok", outposts |-> pg, next |-> n] :
             pg \in OutpostPages,
             n \in IF k < MaxPages THEN {0, k + 1} ELSE {0}}

\* Mutant: the name filter is not applied.
MutOutpostMatches(cfg, o) ==
    /\ ~o.nil
    /\ ~(cfg.id /= "" /\ cfg.id /= o.OutpostId)

\* Lines 73-83: an outpost is kept unless it is nil or differs from a filter
\* that is given (d.GetOk is false for the empty string).
OutpostMatches(cfg, o) ==
    /\ ~o.nil
    /\ ~(cfg.id /= "" /\ cfg.id /= o.OutpostId)
    /\ ~(cfg.name /= "" /\ cfg.name /= o.Name)

\* Lines 72-85: the outposts of a page that are appended, in order.
KeptOutposts(cfg, page) == SelectSeq(page, LAMBDA o : OutpostMatches(cfg, o))

\* Lines 95-101: what the lookup returns for the outposts it collected.
LookupResult(found) ==
    IF Len(found) = 0 THEN "ErrNoOutpost"
    ELSE IF Len(found) > 1 THEN "ErrMultipleOutposts" ELSE "ok"

\* Lines 103-114: the resource data after the lookup: the ID and the name
\* of the one outpost, or unchanged after an error.
LookupSet(cfg, found) ==
    IF LookupResult(found) = "ok"
    THEN [cfg EXCEPT !.Id = found[1].OutpostId, !.name = found[1].Name]
    ELSE cfg

\* Lines 61-93 and 95-114: one pass of the loop: ListOutposts with the token
\* held; an error ends the lookup; the matching outposts of the page are
\* appended; with a next token the loop goes on, without one (or with a nil
\* output) the lookup finishes with what it collected.
ListOutposts ==
    /\ op = "outposts" /\ pc = "list"
    /\ \E a \in ListAnswers(Len(calls) + 1) :
        LET found == loc.outposts \o KeptOutposts(d, a.outposts)
            last == a.res = "nil" \/ a.next = 0
        IN
        /\ calls' = Append(calls, [api |-> "ListOutposts", token |-> loc.token,
                                   res |-> a.res, outposts |-> a.outposts,
                                   next |-> a.next])
        /\ IF a.res = "error"
           THEN /\ pc' = "done" /\ ret' = "ErrList"
                /\ UNCHANGED <<d, loc>>
           ELSE /\ loc' = [loc EXCEPT !.token = IF last THEN @ ELSE a.next,
                                      !.outposts = found]
                /\ pc' = IF last THEN "done" ELSE "list"
                /\ ret' = IF last THEN LookupResult(found) ELSE ret
                /\ d' = IF last THEN LookupSet(d, found) ELSE d
    /\ UNCHANGED <<op, w>>

\* The lookups: no filter, an ID, a name, or both.
InitOutposts ==
    /\ op = "outposts" /\ pc = "list"
    /\ \E id \in {"", "op-1", "op-2"}, name \in {"", "a"} :
        /\ d = [Id |-> "", id |-> id, name |-> name]
        /\ loc = [token |-> 0, outposts |-> <<>>, name |-> name]
    /\ calls = <<>> /\ w = NoWait /\ ret = "none"

NextOutposts == ListOutposts

SpecOutposts == InitOutposts /\ [][NextOutposts]_vars


\* ------------------------------------------------------ all the handlers
Init == InitCreate \/ InitRead \/ InitUpdate \/ InitDelete

Next == NextCreate \/ NextRead \/ NextUpdate \/ NextDelete

Spec == Init /\ [][Next]_vars

\* ================================================================ CLAIMS
\* The resource data create or update worked with: d, until the final read has set
\* attributes from the group it found.
Planned ==
    IF "planned" \in DOMAIN loc THEN loc.planned ELSE d


\* What a logged describe reports about the group of the configuration.
ReportsGroup(c) ==
    c.api = "DescribeAutoScalingGroups" /\ c.res = "ok" /\ c.gname = asgName
ReportsNoGroup(c) ==
    /\ c.api = "DescribeAutoScalingGroups"
    /\ (c.res = "NotFound" \/ (c.res = "ok" /\ c.gname /= asgName))
IsTimeout(c) == c.api = "resource.Retry"

\* The capacity the configuration asks for, as a request carries it.
Configured(v) == IF v /= 0 THEN v ELSE NIL

\* C1: in create with at least one initial lifecycle hook every
\* CreateAutoScalingGroup request carries MinSize 0, MaxSize 0 and no desired
\* capacity, and the UpdateAutoScalingGroup that follows carries the
\* configured min_size, max_size and (when set) desired_capacity; a create
\* that returned success has sent that update.  Without a hook the create
\* request carries the configured values and no update is sent.
C1_TwoPhaseCapacity ==
    op = "create" =>
        /\ \A i \in CallsOf("CreateAutoScalingGroup") :
              IF Planned.initial_lifecycle_hook /= {}
              THEN calls[i].min = 0 /\ calls[i].max = 0 /\ calls[i].desired = NIL
              ELSE /\ calls[i].min = Planned.min_size
                   /\ calls[i].max = Planned.max_size
                   /\ calls[i].desired = Configured(Planned.desired_capacity)
        /\ \A i \in CallsOf("UpdateAutoScalingGroup") :
              /\ Planned.initial_lifecycle_hook /= {}
              /\ calls[i].min = Planned.min_size
              /\ calls[i].max = Planned.max_size
              /\ calls[i].desired = Configured(Planned.desired_capacity)
        /\ (ret = "ok" /\ Planned.initial_lifecycle_hook /= {}
              => Cardinality(CallsOf("UpdateAutoScalingGroup")) = 1)

\* C1, witness: a two-phase create with a configured capacity returned
\* success after its deferred update.
C1_Witness ==
    /\ op = "create" /\ ret = "ok"
    /\ Planned.initial_lifecycle_hook /= {}
    /\ Planned.min_size > 0 /\ Planned.max_size > 0 /\ Planned.desired_capacity > 0
    /\ \E i \in CallsOf("UpdateAutoScalingGroup") : calls[i].desired > 0
    /\ \E i \in CallsOf("CreateAutoScalingGroup") : calls[i].res = "ok"

\* A request that carries a capacity bound above zero.
NonZeroCapacity(c) == c.min > 0 \/ c.max > 0 \/ c.desired > 0

\* C2: in a two-phase create, before the UpdateAutoScalingGroup and before
\* any request with a capacity above zero, every configured hook was put by
\* a PutLifecycleHook call that succeeded.
C2_HooksBeforeCapacity ==
    op = "create" /\ Planned.initial_lifecycle_hook /= {} =>
        \A i \in 1..Len(calls) :
            calls[i].api = "UpdateAutoScalingGroup" \/ NonZeroCapacity(calls[i]) =>
                \A h \in Planned.initial_lifecycle_hook :
                    \E j \in 1..(i - 1) :
                        /\ calls[j].api = "PutLifecycleHook"
                        /\ calls[j].arg = <<h>>
                        /\ calls[j].res = "ok"

\* C2, witness: the capacity update of a create with two hooks was sent.
C2_Witness ==
    /\ op = "create"
    /\ Cardinality(Planned.initial_lifecycle_hook) >= 2
    /\ \E i \in CallsOf("UpdateAutoScalingGroup") : NonZeroCapacity(calls[i])

\* The first describe of delete found the group with instances or with a
\* desired capacity above zero.
DeleteFoundBusyGroup ==
    /\ op = "delete" /\ Len(calls) >= 1
    /\ ReportsGroup(calls[1])
    /\ (calls[1].inst > 0 \/ calls[1].cap > 0)

ZeroCapacityUpdate(c) ==
    /\ c.api = "UpdateAutoScalingGroup"
    /\ c.min = 0 /\ c.max = 0 /\ c.desired = 0 /\ c.res = "ok"

\* With force_delete no capacity update and no drain describe is made: the
\* delete request is the second call.
ForceDeleteSkipsDrain ==
    DeleteFoundBusyGroup /\ d.force_delete =>
        /\ CallsOf("UpdateAutoScalingGroup") = {}
        /\ (Len(calls) >= 2 => calls[2].api = "DeleteAutoScalingGroup")

\* C3 as claimed: without force_delete, a DeleteAutoScalingGroup for such a
\* group comes after an update of the capacity to 0/0/0 and after a later
\* describe that reported the group with zero instances; with force_delete
\* the delete request follows the first describe directly.
C3_AsClaimed ==
    /\ ForceDeleteSkipsDrain
    /\ (DeleteFoundBusyGroup /\ ~d.force_delete =>
          \A i \in CallsOf("DeleteAutoScalingGroup") :
              \E j \in 1..(i - 1), k \in 1..(i - 1) :
                  /\ ZeroCapacityUpdate(calls[j])
                  /\ j < k
                  /\ ReportsGroup(calls[k]) /\ calls[k].inst = 0)

\* C3 as amended: ... after a later describe that reported the group with
\* zero instances or reported no such group.
C3_DrainBeforeDelete ==
    /\ ForceDeleteSkipsDrain
    /\ (DeleteFoundBusyGroup /\ ~d.force_delete =>
          \A i \in CallsOf("DeleteAutoScalingGroup") :
              \E j \in 1..(i - 1), k \in 1..(i - 1) :
                  /\ ZeroCapacityUpdate(calls[j])
                  /\ j < k
                  /\ \/ ReportsGroup(calls[k]) /\ calls[k].inst = 0
                     \/ ReportsNoGroup(calls[k]))

\* C3, witness: the drain saw an instance, then none, and the delete
\* request was sent.
C3_Witness ==
    /\ DeleteFoundBusyGroup /\ ~d.force_delete
    /\ \E i \in CallsOf("DeleteAutoScalingGroup") :
          \E k \in 2..(i - 2) :
              /\ ReportsGroup(calls[k]) /\ calls[k].inst > 0
              /\ ReportsGroup(calls[k + 1]) /\ calls[k + 1].inst = 0

\* C4: when the first describe of delete reports no such group (the error
\* code InvalidGroup.NotFound, or a list without a group of that name),
\* delete returns success and that describe is its only call.
C4_DeleteOfMissingGroup ==
    op = "delete" /\ Len(calls) >= 1 /\ ReportsNoGroup(calls[1]) =>
        Len(calls) = 1 /\ ret = "ok" /\ pc = "done"

\* C4, witness: delete returned after a describe that listed another group only.
C4_Witness ==
    /\ op = "delete" /\ ret = "ok" /\ Len(calls) = 1
    /\ calls[1].res = "ok" /\ calls[1].gname = "other"

\* The four attach and detach calls of update.
BatchApis ==
    {"DetachLoadBalancers", "AttachLoadBalancers",
     "DetachLoadBalancerTargetGroups", "AttachLoadBalancerTargetGroups"}

\* The number of names update has to detach or attach with an API.
ListLen(api) ==
    CASE api = "DetachLoadBalancers" ->
            Cardinality(Planned.old.load_balancers \ Planned.load_balancers)
      [] api = "AttachLoadBalancers" ->
            Cardinality(Planned.load_balancers \ Planned.old.load_balancers)
      [] api = "DetachLoadBalancerTargetGroups" ->
            Cardinality(Planned.old.target_group_arns \ Planned.target_group_arns)
      [] api = "AttachLoadBalancerTargetGroups" ->
            Cardinality(Planned.target_group_arns \ Planned.old.target_group_arns)

\* The wait that belongs to an attach or detach call.
WaitOf(api) ==
    CASE api = "DetachLoadBalancers" -> "LoadBalancersRemoved"
      [] api = "AttachLoadBalancers" -> "LoadBalancersAdded"
      [] api = "DetachLoadBalancerTargetGroups" -> "LoadBalancerTargetGroupsRemoved"
      [] api = "AttachLoadBalancerTargetGroups" -> "LoadBalancerTargetGroupsAdded"

\* The calls of an API, in the order they were made.
CallSeq(api) == SelectSeq(calls, LAMBDA c : c.api = api)

\* Update is past its attaching and detaching.
PastAttachments ==
    /\ op = "update" /\ OkCallsOf("UpdateAutoScalingGroup") /= {}
    /\ pc \notin {"start", "attach", "wait"}
    /\ ret \notin {"ErrAttach", "ErrWait"}

\* C5: in update, a list of n > 0 load balancers or target groups to detach
\* or attach is sent in ceil(n/10) calls, the k-th carrying the next 10 names
\* or the rest (so between 1 and 10), never more calls and exactly that many
\* once update is past the lists; and a call for a batch is made only after
\* the wait of the batch before it has returned without error.
C5_Batching ==
    op = "update" =>
        /\ \A api \in BatchApis :
            /\ Len(CallSeq(api)) <= (ListLen(api) + 9) \div 10
            /\ \A k \in 1..Len(CallSeq(api)) :
                /\ Len(CallSeq(api)[k].arg) \in 1..10
                /\ Len(CallSeq(api)[k].arg) = Min(10, ListLen(api) - 10 * (k - 1))
            /\ PastAttachments => Len(CallSeq(api)) = (ListLen(api) + 9) \div 10
        /\ \A i \in 1..Len(calls), j \in 1..Len(calls) :
            i < j /\ calls[i].api \in BatchApis /\ calls[j].api \in BatchApis =>
                /\ i + 1 < j
                /\ calls[i + 1].api = WaitOf(calls[i].api)
                /\ calls[i + 1].res = "ok"

\* C5, witness: eleven load balancers were detached in a batch of 10 and a
\* batch of 1, with the wait for their removal between the two.
C5_Witness ==
    /\ PastAttachments
    /\ ListLen("DetachLoadBalancers") = 11
    /\ Len(CallSeq("DetachLoadBalancers")) = 2
    /\ Len(CallSeq("DetachLoadBalancers")[1].arg) = 10
    /\ Len(CallSeq("DetachLoadBalancers")[2].arg) = 1
    /\ \E i \in 1..Len(calls) :
        /\ calls[i].api = "DetachLoadBalancers"
        /\ calls[i + 1].api = "LoadBalancersRemoved"
        /\ calls[i + 2].api = "DetachLoadBalancers"

\* The state a wait watches for.
Watched(kind) ==
    IF kind \in {"LoadBalancersRemoved", "LoadBalancerTargetGroupsRemoved"}
    THEN "Removing" ELSE "Adding"

\* The answer to a request of the running wait was a page with an item in
\* the watched state.
Transitional(e) == e.res = "ok" /\ Watched(w.kind) \in e.states

\* C6: in each of the four waits, after a page with an item in the watched
\* state the wait holds no token, so that its next request asks for the first
\* page; a request with a token follows a page without such an item and asks
\* for the page that one named as next; and the wait returns success only
\* when the requests since the last one without a token were all answered
\* with pages without such an item, the last of them without a next token.
C6_WaitRestartsAndFullPass ==
    op = "update" /\ w.kind /= "none" =>
        /\ \A i \in 1..Len(w.pass) :
            /\ i = 1 => w.pass[i].token = 0
            /\ i > 1 => /\ ~Transitional(w.pass[i - 1])
                        /\ w.pass[i - 1].next /= 0
                        /\ w.pass[i].token = w.pass[i - 1].next
        /\ w.status = "running" /\ w.pass /= <<>>
           /\ Transitional(w.pass[Len(w.pass)]) => w.token = 0
        /\ w.status = "ok" =>
            /\ w.pass /= <<>>
            /\ \A i \in 1..Len(w.pass) :
                w.pass[i].res = "ok" /\ ~Transitional(w.pass[i])
            /\ w.pass[Len(w.pass)].next = 0

\* C6, witness: the wait for target groups to be added saw an item in state
\* Adding on the second page and holds no token.
C6_Witness ==
    /\ op = "update" /\ w.kind = "LoadBalancerTargetGroupsAdded"
    /\ w.status = "running" /\ Len(w.pass) = 2
    /\ w.pass[2].token = 2 /\ "Adding" \in w.pass[2].states
    /\ w.token = 0

\* The launch sources a configuration sets.
LaunchSources(cfg) ==
    (IF cfg.launch_configuration THEN {"launch_configuration"} ELSE {})
    \cup (IF cfg.launch_template /= "none" THEN {"launch_template"} ELSE {})
    \cup (IF cfg.mixed_instances_policy THEN {"mixed_instances_policy"} ELSE {})

InputValidationError == {"ErrNoLaunchSource", "ErrLaunchTemplate"}

\* C7 as claimed: create gets past the building of its request exactly for
\* the configurations with one launch source, and returns an
\* input-validation error for those with none or with more than one
\* (configurations whose launch_template block, if any, names an id or a name).
C7_AsClaimed ==
    op = "create" /\ pc /= "start" /\ Planned.launch_template /= "empty" =>
        IF Cardinality(LaunchSources(Planned)) = 1
        THEN ret \notin InputValidationError
        ELSE ret \in InputValidationError /\ calls = <<>>

\* What the code does for C7: only a configuration without any launch source
\* is refused.
C7_OnlyNoneIsRefused ==
    op = "create" /\ pc /= "start" /\ Planned.launch_template /= "empty" =>
        (ret \in InputValidationError <=> LaunchSources(Planned) = {})

\* C8: a CreateAutoScalingGroup call that is not the first follows either a
\* create call that failed with the IAM instance profile error, inside the
\* retry, or the timeout of the retry; the call after the timeout is the
\* last create call and its failure is the result of create; after a timeout
\* that call is made; any other error is the last call and create returns it.
C8_CreateRetryPolicy ==
    op = "create" =>
        /\ \A i \in CallsOf("CreateAutoScalingGroup") :
              /\ i > 1 =>
                    \/ /\ calls[i - 1].api = "CreateAutoScalingGroup"
                       /\ calls[i - 1].res = "IAM"
                    \/ IsTimeout(calls[i - 1]) /\ calls[i - 1].res = "TimeoutError"
              /\ i > 1 /\ IsTimeout(calls[i - 1]) =>
                    /\ \A j \in CallsOf("CreateAutoScalingGroup") : j <= i
                    /\ (calls[i].res /= "ok" => i = Len(calls) /\ ret = "ErrCreate")
              /\ calls[i].res = "other" => i = Len(calls) /\ ret = "ErrCreate"
        /\ \A i \in 1..Len(calls) :
              IsTimeout(calls[i]) =>
                /\ calls[i - 1].api = "CreateAutoScalingGroup"
                /\ calls[i - 1].res = "IAM"
                /\ IF calls[i].res = "TimeoutError"
                   THEN IF i = Len(calls)
                        THEN pc = "createFinal" /\ ret = "none"
                        ELSE calls[i + 1].api = "CreateAutoScalingGroup"
                   ELSE i = Len(calls) /\ ret = "ErrCreate"

\* C8, witness: the IAM error was retried, the retry timed out, and the one
\* call after the timeout created the group.
C8_Witness ==
    /\ op = "create"
    /\ \E i \in 3..(Len(calls) - 1) :
          /\ calls[i - 2].res = "IAM" /\ calls[i - 1].res = "IAM"
          /\ IsTimeout(calls[i]) /\ calls[i].res = "TimeoutError"
          /\ calls[i + 1].api = "CreateAutoScalingGroup" /\ calls[i + 1].res = "ok"

DeleteRetryable == {"ResourceInUse", "ScalingActivityInProgress"}
IsDelete(c) == c.api = "DeleteAutoScalingGroup"

\* C9: a DeleteAutoScalingGroup call that is not the first follows either a
\* delete call answered ResourceInUse or ScalingActivityInProgress, inside
\* the retry, or the timeout of that retry; after the timeout one more call
\* is made and it is the last; InvalidGroup.NotFound never makes delete
\* return the delete error; any other error is the last call and delete
\* returns it.
C9_DeleteRetryPolicy ==
    op = "delete" =>
        /\ \A i \in CallsOf("DeleteAutoScalingGroup") :
              /\ (\E j \in CallsOf("DeleteAutoScalingGroup") : j < i) =>
                    \/ IsDelete(calls[i - 1]) /\ calls[i - 1].res \in DeleteRetryable
                    \/ /\ IsTimeout(calls[i - 1]) /\ calls[i - 1].res = "TimeoutError"
                       /\ IsDelete(calls[i - 2])
              /\ IsTimeout(calls[i - 1]) /\ IsDelete(calls[i - 2]) =>
                    /\ \A j \in CallsOf("DeleteAutoScalingGroup") : j <= i
                    /\ (calls[i].res \notin {"ok", "NotFound"}
                          => i = Len(calls) /\ ret = "ErrDelete")
                    /\ (calls[i].res = "NotFound" => i = Len(calls) /\ ret = "ok")
              /\ calls[i].res = "NotFound" => ret /= "ErrDelete"
              /\ calls[i].res = "NotFound" /\ i = Len(calls) =>
                    pc = "pollRetry" \/ ret = "ok"
              /\ calls[i].res = "other" => i = Len(calls) /\ ret = "ErrDelete"
        /\ \A i \in 2..Len(calls) :
              IsTimeout(calls[i]) /\ IsDelete(calls[i - 1]) =>
                /\ calls[i - 1].res \in DeleteRetryable
                /\ IF calls[i].res = "TimeoutError"
                   THEN IF i = Len(calls)
                        THEN pc = "deleteFinal" /\ ret = "none"
                        ELSE IsDelete(calls[i + 1])
                   ELSE i = Len(calls) /\ ret = "ErrDelete"

\* C9, witness: both retryable errors were retried, the retry timed out,
\* and the call after the timeout was answered InvalidGroup.NotFound.
C9_Witness ==
    /\ op = "delete" /\ ret = "ok"
    /\ \E i \in 3..(Len(calls) - 1) :
          /\ IsDelete(calls[i - 2]) /\ calls[i - 2].res = "ResourceInUse"
          /\ IsDelete(calls[i - 1]) /\ calls[i - 1].res = "ScalingActivityInProgress"
          /\ IsTimeout(calls[i]) /\ calls[i].res = "TimeoutError"
          /\ IsDelete(calls[i + 1]) /\ calls[i + 1].res = "NotFound"

\* C10: once a DeleteAutoScalingGroup call succeeded, delete returns success
\* only after a describe that did not report the group; a describe of the
\* poll that reports the group is followed by another describe or by the
\* timeout; after the timeout exactly one describe is made, and when it
\* reports the group delete returns "Auto Scaling Group still exists".
C10_NoSuccessWhileGroupExists ==
    op = "delete" /\ (\E i \in CallsOf("DeleteAutoScalingGroup") : calls[i].res = "ok") =>
        /\ ret = "ok" =>
              /\ calls[Len(calls)].api = "DescribeAutoScalingGroups"
              /\ ~ReportsGroup(calls[Len(calls)])
              /\ IsDelete(calls[Len(calls) - 1])
                 \/ ReportsGroup(calls[Len(calls) - 1])
                 \/ IsTimeout(calls[Len(calls) - 1])
        /\ \A i \in 2..Len(calls) :
              /\ IsTimeout(calls[i])
              /\ ReportsGroup(calls[i - 1])
              /\ (\E j \in CallsOf("DeleteAutoScalingGroup") : j < i)
              /\ calls[i].res = "TimeoutError"
              => IF i = Len(calls) THEN pc = "pollFinal" /\ ret = "none"
                 ELSE /\ i + 1 = Len(calls)
                      /\ calls[i + 1].api = "DescribeAutoScalingGroups"
                      /\ (ReportsGroup(calls[i + 1]) => ret = "ErrStillExists")
                      /\ pc = "done"

\* C10, witness: the poll saw the group, timed out, saw the group once
\* more, and delete returned "Auto Scaling Group still exists".
C10_Witness ==
    /\ op = "delete" /\ ret = "ErrStillExists"
    /\ \E i \in CallsOf("DeleteAutoScalingGroup") :
          /\ calls[i].res = "ok"
          /\ Len(calls) = i + 3
          /\ ReportsGroup(calls[i + 1])
          /\ IsTimeout(calls[i + 2])
          /\ ReportsGroup(calls[i + 3])

\* C11: in create the capacity wait follows the successful create call and,
\* with initial lifecycle hooks, the successful deferred update;
\* SuspendProcesses and EnableMetricsCollection follow a capacity wait that
\* succeeded, SuspendProcesses first, each is issued only when its set is
\* configured (and then is issued before create reads the group back), and
\* neither is issued after a capacity wait that failed.
C11_CreateOrder ==
    op = "create" =>
        /\ \A i \in CallsOf("waitForASGCapacity") :
            /\ \E j \in OkCallsOf("CreateAutoScalingGroup") : j < i
            /\ twoPhases(Planned) => \E j \in OkCallsOf("UpdateAutoScalingGroup") : j < i
        /\ \A i \in CallsOf("SuspendProcesses") \cup CallsOf("EnableMetricsCollection") :
            /\ \E j \in OkCallsOf("waitForASGCapacity") : j < i
            /\ CallsOf("waitForASGCapacity") \ OkCallsOf("waitForASGCapacity") = {}
        /\ \A i \in CallsOf("SuspendProcesses"), j \in CallsOf("EnableMetricsCollection") :
            i < j
        /\ CallsOf("SuspendProcesses") /= {} => Planned.suspended_processes /= {}
        /\ CallsOf("EnableMetricsCollection") /= {} => Planned.enabled_metrics /= {}
        /\ CallsOf("DescribeAutoScalingGroups") /= {} =>
            /\ Planned.suspended_processes /= {} => OkCallsOf("SuspendProcesses") /= {}
            /\ Planned.enabled_metrics /= {} => OkCallsOf("EnableMetricsCollection") /= {}

\* C11, witness: a two-phase create with processes to suspend and metrics to
\* enable made the deferred update, the capacity wait, SuspendProcesses and
\* EnableMetricsCollection in that order and returned.
C11_Witness ==
    /\ op = "create" /\ ret = "ok" /\ twoPhases(Planned)
    /\ \E i \in 1..Len(calls) :
        /\ i + 3 <= Len(calls)
        /\ calls[i].api = "UpdateAutoScalingGroup"
        /\ calls[i + 1].api = "waitForASGCapacity"
        /\ calls[i + 2].api = "SuspendProcesses"
        /\ calls[i + 3].api = "EnableMetricsCollection"

\* C12: when read finds the group, it reports no termination policy if none
\* is configured and the provider reports exactly <<"Default">>, and it
\* reports the provider's list, as it is and in its order, if that list is
\* any other, whatever is configured.
C12_TerminationPolicies ==
    op = "read" /\ pc = "done" /\ loc.found =>
        /\ ~loc.ok /\ loc.TerminationPolicies = <<"Default">> =>
            d.termination_policies = <<>>
        /\ loc.TerminationPolicies /= <<"Default">> =>
            d.termination_policies = loc.TerminationPolicies

\* C12, witness: with a configured policy read found <<"Default",
\* "OldestInstance">> and reports both.
C12_Witness ==
    /\ op = "read" /\ pc = "done" /\ loc.found /\ loc.ok
    /\ loc.TerminationPolicies = <<"Default", "OldestInstance">>
    /\ d.termination_policies = <<"Default", "OldestInstance">>

\* The names a call carries, as a set.
Names(c) == {c.arg[k] : k \in 1..Len(c.arg)}

\* The calls of the API carry, each name once, the members of `diff`, and
\* there is no such call when diff is empty and at most one otherwise.
CarriesExactly(api, diff) ==
    /\ Cardinality(CallsOf(api)) <= (IF diff = {} THEN 0 ELSE 1)
    /\ \A i \in CallsOf(api) :
        Names(calls[i]) = diff /\ Len(calls[i].arg) = Cardinality(diff)

\* C13: update resumes exactly the processes of old minus new and suspends
\* exactly those of new minus old, disables exactly the metrics of old minus
\* new and enables exactly those of new minus old; no call is made for an
\* empty difference, an update that returns success has made the call for
\* every difference that is not empty, and ResumeProcesses comes before
\* SuspendProcesses, DisableMetricsCollection before EnableMetricsCollection.
C13_SetDifferences ==
    op = "update" =>
        /\ CarriesExactly("ResumeProcesses",
                          Planned.old.suspended_processes \ Planned.suspended_processes)
        /\ CarriesExactly("SuspendProcesses",
                          Planned.suspended_processes \ Planned.old.suspended_processes)
        /\ CarriesExactly("DisableMetricsCollection",
                          Planned.old.enabled_metrics \ Planned.enabled_metrics)
        /\ CarriesExactly("EnableMetricsCollection",
                          Planned.enabled_metrics \ Planned.old.enabled_metrics)
        /\ \A i \in CallsOf("ResumeProcesses"), j \in CallsOf("SuspendProcesses") : i < j
        /\ \A i \in CallsOf("DisableMetricsCollection"),
              j \in CallsOf("EnableMetricsCollection") : i < j
        /\ ret = "ok" =>
            /\ Planned.old.suspended_processes \ Planned.suspended_processes /= {}
                   => CallsOf("ResumeProcesses") /= {}
            /\ Planned.suspended_processes \ Planned.old.suspended_processes /= {}
                   => CallsOf("SuspendProcesses") /= {}
            /\ Planned.old.enabled_metrics \ Planned.enabled_metrics /= {}
                   => CallsOf("DisableMetricsCollection") /= {}
            /\ Planned.enabled_metrics \ Planned.old.enabled_metrics /= {}
                   => CallsOf("EnableMetricsCollection") /= {}

\* C13, witness: with one metric kept, one dropped and one new, update
\* disabled the dropped one, then enabled the new one, and returned.
C13_Witness ==
    /\ op = "update" /\ ret = "ok"
    /\ Planned.old.enabled_metrics \cap Planned.enabled_metrics /= {}
    /\ \E i \in CallsOf("DisableMetricsCollection"),
          j \in CallsOf("EnableMetricsCollection") :
        /\ i < j
        /\ Names(calls[i]) = Planned.old.enabled_metrics \ Planned.enabled_metrics
        /\ Names(calls[j]) = Planned.enabled_metrics \ Planned.old.enabled_metrics

\* Update made its UpdateAutoScalingGroup call and the call succeeded.
UpdateCallSucceeded ==
    op = "update" /\ OkCallsOf("UpdateAutoScalingGroup") /= {}

\* One of the six attributes the instances depend on changed.
InstanceAttributeChanged ==
    \/ Planned.old.launch_configuration /= Planned.launch_configuration
    \/ Planned.old.launch_template /= Planned.launch_template
    \/ Planned.old.mixed_instances_policy /= Planned.mixed_instances_policy
    \/ Planned.old.placement_group /= Planned.placement_group
    \/ Planned.old.availability_zones /= Planned.availability_zones
    \/ Planned.old.vpc_zone_identifier /= Planned.vpc_zone_identifier

\* The map from key to value of the tags of a collection that are propagated
\* at launch.
PropagatedMap(tags) ==
    [k \in {t.key : t \in {x \in tags : x.propagate_at_launch}} |->
        (CHOOSE t \in tags : t.key = k /\ t.propagate_at_launch).value]

\* C14: an update sets a new refresh token exactly when its
\* UpdateAutoScalingGroup call succeeded and launch_configuration,
\* launch_template, mixed_instances_policy, placement_group,
\* availability_zones or vpc_zone_identifier changed or the tags propagated
\* at launch changed; otherwise the token stays as it was.
C14_RefreshToken ==
    op = "update" =>
        (d.instance_refresh_token /= 0 <=>
            /\ UpdateCallSucceeded
            /\ \/ InstanceAttributeChanged
               \/ PropagatedMap(Planned.old.tags) /= PropagatedMap(Planned.tags))

\* C14, witness: an update that changed the placement group alone set a new
\* token; its call succeeded.
C14_Witness ==
    /\ UpdateCallSucceeded
    /\ Planned.old.placement_group /= Planned.placement_group
    /\ Cardinality({a \in DOMAIN Planned.old : Planned.old[a] /= Planned[a]}) = 1
    /\ d.instance_refresh_token = 1

\* C15: in an update that changes the tags and none of the six attributes,
\* and whose UpdateAutoScalingGroup call succeeded, the token is new exactly
\* when the map of the propagated tags differs between the old and the new
\* collection: a propagated tag with a new value, a propagated tag added or
\* removed, or a flipped propagate flag make it differ; tags that are not
\* propagated before and after do not.
C15_PropagatedTags ==
    UpdateCallSucceeded /\ Planned.old.tags /= Planned.tags /\ ~InstanceAttributeChanged =>
        /\ d.instance_refresh_token /= 0
               <=> PropagatedMap(Planned.old.tags) /= PropagatedMap(Planned.tags)
        /\ (\E t \in Planned.old.tags \cup Planned.tags :
               t.propagate_at_launch /\ ~(t \in Planned.old.tags /\ t \in Planned.tags))
               => d.instance_refresh_token /= 0
        /\ (\A t \in Planned.old.tags \cup Planned.tags : ~t.propagate_at_launch)
               => d.instance_refresh_token = 0

\* C15, witness: the value of a propagated tag changed and the token is new.
C15_Witness ==
    /\ UpdateCallSucceeded /\ ~InstanceAttributeChanged
    /\ \E t \in Planned.old.tags, u \in Planned.tags :
        /\ t.key = u.key /\ t.value /= u.value
        /\ t.propagate_at_launch /\ u.propagate_at_launch
    /\ d.instance_refresh_token = 1

\* C16 as claimed: an update that returns success has run the capacity wait
\* if min_size, max_size or desired_capacity changed, and no update runs it
\* if none of them changed.
C16_AsClaimed ==
    op = "update" =>
        /\ ret = "ok" /\ (\/ HasChange(Planned, "min_size")
                          \/ HasChange(Planned, "max_size")
                          \/ HasChange(Planned, "desired_capacity"))
               => OkCallsOf("waitForASGCapacity") /= {}
        /\ (/\ ~HasChange(Planned, "min_size")
            /\ ~HasChange(Planned, "max_size")
            /\ ~HasChange(Planned, "desired_capacity"))
               => CallsOf("waitForASGCapacity") = {}

\* The last call of create was a lifecycle hook that could not be put or the
\* deferred capacity update that failed.
TwoPhaseStepFailed ==
    /\ op = "create" /\ calls /= <<>>
    /\ calls[Len(calls)].api \in {"PutLifecycleHook", "UpdateAutoScalingGroup"}
    /\ calls[Len(calls)].res /= "ok"

\* C17: when a lifecycle hook cannot be put or the deferred capacity update
\* fails, the group has been created, create returns the error of that step,
\* which is neither the creation error nor a validation error, the resource
\* ID stays recorded, and create makes no further call; and create never
\* issues DeleteAutoScalingGroup.
C17_NoRollback ==
    op = "create" =>
        /\ CallsOf("DeleteAutoScalingGroup") = {}
        /\ TwoPhaseStepFailed =>
            /\ OkCallsOf("CreateAutoScalingGroup") /= {}
            /\ pc = "done"
            /\ ret = (IF calls[Len(calls)].api = "PutLifecycleHook"
                      THEN "ErrHooks" ELSE "ErrInitialCapacity")
            /\ ret \notin {"ErrCreate"} \cup InputValidationError
            /\ d.id = Planned.name

\* C17, witness: the second hook could not be put after the group was created
\* and the first hook was put.
C17_Witness ==
    /\ TwoPhaseStepFailed /\ ret = "ErrHooks" /\ d.id = asgName
    /\ Cardinality(OkCallsOf("PutLifecycleHook")) = 1
    /\ calls[Len(calls)].api = "PutLifecycleHook"

\* C18: for a configuration with no launch source, or with a launch_template
\* block that cannot be expanded, create attempts no API call and records no
\* resource ID, and what it returns is the validation error.
C18_ValidationBeforeCalls ==
    op = "create" /\ (LaunchSources(Planned) = {} \/ Planned.launch_template = "empty") =>
        /\ calls = <<>>
        /\ d.id = ""
        /\ pc = "done" => ret \in InputValidationError

\* C18, witness: create returned the error of the launch template expansion
\* without a call.
C18_Witness ==
    /\ op = "create" /\ pc = "done" /\ ret = "ErrLaunchTemplate"
    /\ Planned.launch_template = "empty" /\ calls = <<>> /\ d.id = ""

\* C19: in each of the four waits a describe that returns an error is the
\* last describe of the wait: the wait has returned the error, update has
\* returned an error, and the wait's return is the last entry of the log.
C19_WaitErrorEndsUpdate ==
    op = "update" /\ w.kind /= "none" =>
        \A i \in 1..Len(w.pass) :
            w.pass[i].res = "error" =>
                /\ i = Len(w.pass)
                /\ w.status = "error"
                /\ pc = "done" /\ ret = "ErrWait"
                /\ calls[Len(calls)].api = w.kind
                /\ calls[Len(calls)].res = "error"

\* C19, witness: the describe of the second page failed in the wait for load
\* balancers to be removed, and update returned the error.
C19_Witness ==
    /\ op = "update" /\ w.kind = "LoadBalancersRemoved"
    /\ Len(w.pass) = 2 /\ w.pass[2].res = "error" /\ w.pass[2].token = 2
    /\ pc = "done" /\ ret = "ErrWait"

\* C20 as claimed: every attachment wait that has started returns, whatever
\* the provider answers.
C20_AsClaimed == (pc = "wait") ~> (pc /= "wait")

\* The timeouts of the retry of the drain: a timeout error after a describe,
\* before any delete request.
DrainTimeouts ==
    {i \in 2..Len(calls) :
        /\ IsTimeout(calls[i]) /\ calls[i].res = "TimeoutError"
        /\ calls[i - 1].api = "DescribeAutoScalingGroups"
        /\ \A j \in 1..i : calls[j].api /= "DeleteAutoScalingGroup"}

\* C21: after the timeout of the drain poll the next call of delete is one
\* more describe; when it reports the group with N > 0 instances, delete
\* returns the error that names N, makes no further call and has issued no
\* DeleteAutoScalingGroup; when it reports the group without instances or no
\* such group, the drain is over and delete goes on to its delete request.
C21_DrainTimeout ==
    op = "delete" =>
        \A i \in DrainTimeouts :
            /\ i = Len(calls) => pc = "drainFinal" /\ ret = "none"
            /\ i < Len(calls) =>
                /\ calls[i + 1].api = "DescribeAutoScalingGroups"
                /\ ReportsGroup(calls[i + 1]) /\ calls[i + 1].inst > 0 =>
                    /\ Len(calls) = i + 1 /\ pc = "done"
                    /\ ret = "Group still has " \o ToString(calls[i + 1].inst)
                                 \o " instances"
                    /\ CallsOf("DeleteAutoScalingGroup") = {}
                /\ \/ ReportsGroup(calls[i + 1]) /\ calls[i + 1].inst = 0
                   \/ ReportsNoGroup(calls[i + 1])
                   => IF Len(calls) = i + 1
                      THEN pc = "deleteRetry" /\ ret = "none"
                      ELSE calls[i + 2].api = "DeleteAutoScalingGroup"

\* C21, witness: the drain timed out, the describe after it reported an
\* instance, and delete returned the error without a delete request.
C21_Witness ==
    /\ op = "delete" /\ pc = "done"
    /\ \E i \in DrainTimeouts :
        /\ Len(calls) = i + 1
        /\ ReportsGroup(calls[i + 1]) /\ calls[i + 1].inst = 1
    /\ ret = "Group still has 1 instances"
    /\ CallsOf("DeleteAutoScalingGroup") = {}

\* C22: a read whose describe reports no such group (the code
\* InvalidGroup.NotFound, or a list without a group of the requested name)
\* returns success and leaves the resource data as they were but for the ID,
\* which it clears.
C22_ReadOfMissingGroup ==
    [][op = "read" /\ calls = <<>> /\ ReportsNoGroup(calls'[1]) =>
          /\ pc' = "done" /\ ret' = "ok"
          /\ d.id = asgName
          /\ d' = [d EXCEPT !.id = ""]]_vars

\* C22, witness: read returned success without ID after a describe that
\* listed another group only; the desired capacity is still 1.
C22_Witness ==
    /\ op = "read" /\ pc = "done" /\ ret = "ok"
    /\ calls[1].res = "ok" /\ calls[1].gname = "other"
    /\ d.id = "" /\ d.desired_capacity = 1

\* The describe calls of the poll that failed: describe calls answered with
\* an error after a delete request that succeeded.
FailedPollDescribes ==
    {i \in CallsOf("DescribeAutoScalingGroups") :
        /\ calls[i].res = "error"
        /\ \E j \in OkCallsOf("DeleteAutoScalingGroup") : j < i}

\* C23, as claimed: an error of the describe call made while delete polls
\* for the group to disappear, after a delete request that succeeded, makes
\* delete return an error; delete does not return success.
C23_AsClaimed ==
    op = "delete" /\ FailedPollDescribes /= {} => ret /= "ok"

\* C24, as claimed: every DeleteAutoScalingGroup request of delete names
\* the group delete was invoked for, the resource ID at entry, also when the
\* group was reported not found while draining.
C24_AsClaimed ==
    op = "delete" =>
        \A i \in CallsOf("DeleteAutoScalingGroup") : calls[i].name = asgName

\* The names update has to detach or attach with an API: old minus new for
\* a detach, new minus old for an attach.
DiffOf(api) ==
    CASE api = "DetachLoadBalancers" -> Planned.old.load_balancers \ Planned.load_balancers
      [] api = "AttachLoadBalancers" -> Planned.load_balancers \ Planned.old.load_balancers
      [] api = "DetachLoadBalancerTargetGroups" ->
            Planned.old.target_group_arns \ Planned.target_group_arns
      [] api = "AttachLoadBalancerTargetGroups" ->
            Planned.target_group_arns \ Planned.old.target_group_arns

\* C25: the batches update sends for a list partition it: a detach call
\* carries only members of old minus new and an attach call only members of
\* new minus old, no call carries a name twice, no two calls of an API share
\* a name, and once update is past the lists every member of the difference
\* has been sent.
C25_BatchesPartition ==
    op = "update" =>
        \A api \in BatchApis :
            /\ \A i \in CallsOf(api) :
                /\ Names(calls[i]) \subseteq DiffOf(api)
                /\ Cardinality(Names(calls[i])) = Len(calls[i].arg)
            /\ \A i \in CallsOf(api), j \in CallsOf(api) :
                i /= j => Names(calls[i]) \cap Names(calls[j]) = {}
            /\ PastAttachments =>
                UNION {Names(calls[i]) : i \in CallsOf(api)} = DiffOf(api)

\* C25, witness: with one load balancer kept, eleven were detached in two
\* calls that share no name and together carry the eleven.
C25_Witness ==
    /\ PastAttachments
    /\ Planned.old.load_balancers \cap Planned.load_balancers /= {}
    /\ Cardinality(DiffOf("DetachLoadBalancers")) = batchSize + 1
    /\ \E i \in CallsOf("DetachLoadBalancers"), j \in CallsOf("DetachLoadBalancers") :
        /\ i < j
        /\ Names(calls[i]) \cap Names(calls[j]) = {}
        /\ Names(calls[i]) \cup Names(calls[j]) = DiffOf("DetachLoadBalancers")

\* C26, as claimed: the VPCZoneIdentifier that expandVpcZoneIdentifiers
\* returns is the configured identifiers joined by commas, it has no empty
\* element, and splitting it on commas as read does gives back the
\* configured identifiers.
C26_AsClaimed ==
    op = "vpc_zone_identifier" =>
        /\ pc \in {"sent", "done"} =>
            /\ ret = Join(loc.list)
            /\ \A k \in 1..Len(ReadVpcZoneIdentifier(ret)) :
                  ReadVpcZoneIdentifier(ret)[k] /= <<>>
        /\ pc = "done" =>
              d.vpc_zone_identifier = {loc.list[k] : k \in 1..Len(loc.list)}

\* The step of update a logged call belongs to, numbered in the order of
\* the claim.
StepOf(c) ==
    CASE c.api = "AutoscalingUpdateTags" -> 1
      [] c.api = "UpdateAutoScalingGroup" -> 2
      [] c.api \in {"DetachLoadBalancers", "LoadBalancersRemoved",
                    "AttachLoadBalancers", "LoadBalancersAdded"} -> 3
      [] c.api \in {"DetachLoadBalancerTargetGroups", "LoadBalancerTargetGroupsRemoved",
                    "AttachLoadBalancerTargetGroups", "LoadBalancerTargetGroupsAdded"} -> 4
      [] c.api = "waitForASGCapacity" -> 5
      [] c.api \in {"DisableMetricsCollection", "EnableMetricsCollection"} -> 6
      [] c.api \in {"ResumeProcesses", "SuspendProcesses"} -> 7
      [] c.api = "DescribeAutoScalingGroups" -> 8

\* C27: the calls of an update come in the order tag update,
\* UpdateAutoScalingGroup, load balancers, target groups, capacity wait,
\* metrics, suspended processes, read; every call but the last succeeded;
\* UpdateAutoScalingGroup is never issued twice, has been issued once update
\* is past that step, and an update that returns success has issued it once,
\* updated the tags exactly when they changed, and read the group last.
C27_UpdateOrder ==
    op = "update" =>
        /\ \A i \in 1..Len(calls), j \in 1..Len(calls) :
              i < j => StepOf(calls[i]) <= StepOf(calls[j])
        /\ \A i \in 1..(Len(calls) - 1) : calls[i].res = "ok"
        /\ Cardinality(CallsOf("UpdateAutoScalingGroup")) <= 1
        /\ Cardinality(CallsOf("DescribeAutoScalingGroups")) <= 1
        /\ pc \notin {"start", "update"} /\ ret /= "ErrTags" =>
              Cardinality(CallsOf("UpdateAutoScalingGroup")) = 1
        /\ ret = "ok" =>
              /\ Cardinality(CallsOf("UpdateAutoScalingGroup")) = 1
              /\ CallsOf("AutoscalingUpdateTags") /= {} <=> HasChange(Planned, "tags")
              /\ calls[Len(calls)].api = "DescribeAutoScalingGroups"

\* C27, witness: an update of the tags and the minimum size updated the
\* tags, sent UpdateAutoScalingGroup, waited for capacity, read the group,
\* and returned success.
C27_Witness ==
    /\ op = "update" /\ ret = "ok" /\ Len(calls) = 4
    /\ calls[1].api = "AutoscalingUpdateTags"
    /\ calls[2].api = "UpdateAutoScalingGroup"
    /\ calls[3].api = "waitForASGCapacity"
    /\ calls[4].api = "DescribeAutoScalingGroups"

\* The lifecycle-hook APIs of the provider.
HookApis ==
    {"PutLifecycleHook", "DeleteLifecycleHook", "CompleteLifecycleAction",
     "RecordLifecycleActionHeartbeat"}

\* C28: update issues no PutLifecycleHook and no other lifecycle-hook call,
\* whatever changed, a change of initial_lifecycle_hook included.
C28_UpdatePutsNoHooks ==
    op = "update" => \A i \in 1..Len(calls) : calls[i].api \notin HookApis

\* C28, witness: an update that adds two initial lifecycle hooks returned
\* success after UpdateAutoScalingGroup and the read, its only two calls.
C28_Witness ==
    /\ op = "update" /\ ret = "ok"
    /\ Planned.old.initial_lifecycle_hook = {}
    /\ Cardinality(Planned.initial_lifecycle_hook) = MaxHooks
    /\ Len(calls) = 2
    /\ calls[1].api = "UpdateAutoScalingGroup"
    /\ calls[2].api = "DescribeAutoScalingGroups"

\* The capacity bounds of a group configuration: min <= max and, with a
\* desired capacity given, min <= desired <= max.
BoundsHold(cfg) ==
    /\ cfg.min_size <= cfg.max_size
    /\ GetOkInt(cfg.desired_capacity) =>
          /\ cfg.min_size <= cfg.desired_capacity
          /\ cfg.desired_capacity <= cfg.max_size

\* C29, as claimed: a CreateAutoScalingGroup request is sent only for a
\* configuration with min <= max and, when a desired capacity is given,
\* min <= desired <= max, and the sizes the request carries are in that
\* order as well.
C29_AsClaimed ==
    op = "create" =>
        \A i \in CallsOf("CreateAutoScalingGroup") :
            /\ BoundsHold(Planned)
            /\ calls[i].min <= calls[i].max
            /\ calls[i].desired /= NIL =>
                  calls[i].min <= calls[i].desired /\ calls[i].desired <= calls[i].max

\* The block that was expanded has a non-empty value for the key.
Given(key) ==
    /\ Len(loc.l) = 1 /\ ~loc.l[1].isNil
    /\ HasValue(loc.l[1].m, key)

\* C30: the specification expanded from a block with both an ID and a name
\* carries that ID and no name; for every input the specification never
\* carries both, and it carries a name only when no non-empty ID was given,
\* the name then being the one given.
C30_IdPreferred ==
    op = "expandLaunchTemplate" /\ pc = "done" =>
        /\ Given("launch_template_id") /\ Given("launch_template_name") =>
              /\ "LaunchTemplateId" \in DOMAIN ret
              /\ ret["LaunchTemplateId"] = loc.l[1].m["launch_template_id"]
              /\ "LaunchTemplateName" \notin DOMAIN ret
        /\ ~({"LaunchTemplateId", "LaunchTemplateName"} \subseteq DOMAIN ret)
        /\ "LaunchTemplateName" \in DOMAIN ret =>
              /\ ~Given("launch_template_id")
              /\ Given("launch_template_name")
              /\ ret["LaunchTemplateName"] = loc.l[1].m["launch_template_name"]

\* C30, witness: a block with the ID "lt-1", the name "a" and no version
\* was expanded into a specification that carries the ID alone.
C30_Witness ==
    /\ op = "expandLaunchTemplate" /\ pc = "done"
    /\ Given("launch_template_id") /\ Given("launch_template_name")
    /\ loc.l[1].m["launch_template_id"] = "lt-1"
    /\ loc.l[1].m["launch_template_name"] = "a"
    /\ DOMAIN ret = {"LaunchTemplateId"}
    /\ ret["LaunchTemplateId"] = "lt-1"

\* The attributes whose change lets update fill a field of the request.
AttributesOf(f) ==
    CASE f = "DefaultCooldown" -> {"default_cooldown"}
      [] f = "DesiredCapacity" -> {"desired_capacity"}
      [] f = "LaunchConfigurationName" -> {"launch_configuration"}
      [] f = "LaunchTemplate" -> {"launch_template"}
      [] f = "MixedInstancesPolicy" -> {"mixed_instances_policy"}
      [] f = "MinSize" -> {"min_size"}
      [] f = "MaxSize" -> {"max_size"}
      [] f = "MaxInstanceLifetime" -> {"max_instance_lifetime"}
      [] f = "HealthCheckGracePeriod" ->
            {"health_check_grace_period", "health_check_type"}
      [] f = "HealthCheckType" -> {"health_check_type"}
      [] f = "VPCZoneIdentifier" -> {"vpc_zone_identifier"}
      [] f = "AvailabilityZones" -> {"availability_zones"}
      [] f = "PlacementGroup" -> {"placement_group"}
      [] f = "TerminationPolicies" -> {"termination_policies"}
      [] f = "ServiceLinkedRoleARN" -> {"service_linked_role_arn"}

\* C31: the UpdateAutoScalingGroup request of update always carries the
\* scale-in protection, and carries any other field only when the attribute
\* of the field changed, the health-check grace period also when the
\* health-check type changed; the three sizes are absent unless changed.
C31_OnlyChangedFields ==
    op = "update" =>
        \A i \in CallsOf("UpdateAutoScalingGroup") :
            /\ "NewInstancesProtectedFromScaleIn" \in DOMAIN calls[i].opts
            /\ calls[i].opts["NewInstancesProtectedFromScaleIn"] = Planned.protect_from_scale_in
            /\ \A f \in DOMAIN calls[i].opts \ {"NewInstancesProtectedFromScaleIn"} :
                  \E a \in AttributesOf(f) : HasChange(Planned, a)
            /\ calls[i].min /= NIL => HasChange(Planned, "min_size")
            /\ calls[i].max /= NIL => HasChange(Planned, "max_size")
            /\ calls[i].desired /= NIL => HasChange(Planned, "desired_capacity")

\* C31, witness: an update that changes the health-check type alone sent a
\* request with the scale-in protection, the type and the unchanged grace
\* period, and nothing else.
C31_Witness ==
    /\ op = "update" /\ ret = "ok"
    /\ HasChange(Planned, "health_check_type")
    /\ ~HasChange(Planned, "health_check_grace_period")
    /\ \E i \in CallsOf("UpdateAutoScalingGroup") :
        /\ DOMAIN calls[i].opts =
              {"NewInstancesProtectedFromScaleIn", "HealthCheckType",
               "HealthCheckGracePeriod"}
        /\ calls[i].opts["HealthCheckGracePeriod"] = 300
        /\ calls[i].min = NIL /\ calls[i].max = NIL /\ calls[i].desired = NIL

\* The errors of the steps of create that follow the create call, the final
\* read apart.
LaterStepErrors ==
    {"ErrHooks", "ErrInitialCapacity", "ErrCapacity", "ErrSuspend", "ErrMetrics"}

\* C32, as claimed: in create the ID is the group name if and only if a
\* CreateAutoScalingGroup call has succeeded.
C32_AsClaimed ==
    op = "create" =>
        (d.id = asgName <=> OkCallsOf("CreateAutoScalingGroup") /= {})

\* The final read of create was answered without error and without the
\* group.
CreateReadFoundNoGroup ==
    \E i \in 1..Len(calls) : ReportsNoGroup(calls[i])

\* C32: in create, without a successful CreateAutoScalingGroup call the ID is
\* unset, also when create has returned its error; after a successful one
\* the ID is the group name, and stays so when hook registration, the
\* deferred update, the capacity wait, SuspendProcesses, EnableMetricsCollection
\* or the describe of the final read fails, unless the final read found no
\* group: then the ID is unset again and create has returned success.
C32_IdIffCreated ==
    op = "create" =>
        /\ OkCallsOf("CreateAutoScalingGroup") = {} =>
              d.id = "" /\ (pc = "done" => ret \in {"ErrNoLaunchSource",
                                                    "ErrLaunchTemplate", "ErrCreate"})
        /\ OkCallsOf("CreateAutoScalingGroup") /= {} =>
              IF CreateReadFoundNoGroup
              THEN d.id = "" /\ pc = "done" /\ ret = "ok"
              ELSE d.id = asgName
        /\ ret \in LaterStepErrors \cup {"ErrRead"} =>
              /\ OkCallsOf("CreateAutoScalingGroup") /= {}
              /\ pc = "done" /\ d.id = asgName
        /\ d.id /= "" => OkCallsOf("CreateAutoScalingGroup") /= {}

\* C32, witness: the create call and the capacity wait of a group with hooks
\* succeeded and the ID was set; the final read found no group, and create
\* returned success without an ID.
C32_Witness ==
    /\ op = "create" /\ pc = "done" /\ ret = "ok"
    /\ Planned.initial_lifecycle_hook /= {}
    /\ Planned.id = asgName
    /\ OkCallsOf("CreateAutoScalingGroup") /= {}
    /\ OkCallsOf("waitForASGCapacity") /= {}
    /\ ReportsNoGroup(calls[Len(calls)])
    /\ d.id = ""

\* The attach and detach calls and the waits of the load balancers, and
\* those of the target groups.
LoadBalancerApis ==
    {"DetachLoadBalancers", "LoadBalancersRemoved",
     "AttachLoadBalancers", "LoadBalancersAdded"}
TargetGroupApis ==
    {"DetachLoadBalancerTargetGroups", "LoadBalancerTargetGroupsRemoved",
     "AttachLoadBalancerTargetGroups", "LoadBalancerTargetGroupsAdded"}

\* All the batches of an API were sent and the wait of each returned
\* without error before call number j.
CompleteBefore(api, j) ==
    /\ Cardinality({i \in CallsOf(api) : i < j}) = (ListLen(api) + 9) \div 10
    /\ \A i \in CallsOf(api) :
          i < j => /\ i + 1 < j
                   /\ calls[i + 1].api = WaitOf(api)
                   /\ calls[i + 1].res = "ok"

\* C33: in an update, when the first attach batch of a kind is issued every
\* detach batch of that kind has been sent and its wait has returned; when
\* the first target-group call is issued every load-balancer batch has been
\* sent and waited for, and no load-balancer call follows a target-group
\* call; and an attach or detach call is issued only while no wait is
\* running, the entry before it being the UpdateAutoScalingGroup call or a
\* wait that returned without error.
C33_SequentialAttachments ==
    op = "update" =>
        /\ \A j \in CallsOf("AttachLoadBalancers") :
              CompleteBefore("DetachLoadBalancers", j)
        /\ \A j \in CallsOf("AttachLoadBalancerTargetGroups") :
              CompleteBefore("DetachLoadBalancerTargetGroups", j)
        /\ \A j \in 1..Len(calls) :
              calls[j].api \in TargetGroupApis =>
                  /\ CompleteBefore("DetachLoadBalancers", j)
                  /\ CompleteBefore("AttachLoadBalancers", j)
                  /\ \A k \in (j + 1)..Len(calls) :
                        calls[k].api \notin LoadBalancerApis
        /\ \A j \in 1..Len(calls) :
              calls[j].api \in BatchApis =>
                  /\ j > 1 /\ calls[j - 1].res = "ok"
                  /\ calls[j - 1].api = "UpdateAutoScalingGroup"
                     \/ \E api \in BatchApis : calls[j - 1].api = WaitOf(api)
        /\ pc = "attach" => w.status /= "running"
        /\ w.status = "running" =>
              pc = "wait" /\ calls[Len(calls)].api \in BatchApis

\* C33, witness: an update detached a load balancer, waited, attached one,
\* waited, and then detached a target group.
C33_Witness ==
    /\ op = "update"
    /\ \E i \in 1..(Len(calls) - 4) :
        /\ calls[i].api = "DetachLoadBalancers"
        /\ calls[i + 1].api = "LoadBalancersRemoved"
        /\ calls[i + 2].api = "AttachLoadBalancers"
        /\ calls[i + 3].api = "LoadBalancersAdded"
        /\ calls[i + 4].api = "DetachLoadBalancerTargetGroups"

\* C34: in an update an attach or detach call, or a wait after one, that
\* returned an error is the last thing update did: update has returned an
\* error, and no batch, capacity wait, metrics or suspended-process call and
\* no read follows.
C34_AttachmentErrorEndsUpdate ==
    op = "update" =>
        \A i \in 1..Len(calls) :
            /\ calls[i].api \in LoadBalancerApis \cup TargetGroupApis
            /\ calls[i].res /= "ok"
            => /\ i = Len(calls)
               /\ pc = "done"
               /\ ret = IF calls[i].api \in BatchApis THEN "ErrAttach" ELSE "ErrWait"

\* C34, witness: of eleven load balancers to detach in an update that also
\* changes the minimum size, the first batch failed; update returned the
\* error after that one call.
C34_Witness ==
    /\ op = "update" /\ pc = "done" /\ ret = "ErrAttach"
    /\ ListLen("DetachLoadBalancers") = batchSize + 1
    /\ HasChange(Planned, "min_size")
    /\ Len(CallSeq("DetachLoadBalancers")) = 1
    /\ calls[Len(calls)].api = "DetachLoadBalancers"
    /\ calls[Len(calls)].res = "error"

\* C35: an update that changes termination_policies to the empty list sends
\* TerminationPolicies = <<"Default">>; and when its read finds the group
\* with exactly <<"Default">>, termination_policies is the empty list after
\* the update, as configured.
C35_DefaultPolicyRoundTrip ==
    /\ op = "update"
    /\ HasChange(Planned, "termination_policies")
    /\ Planned.termination_policies = <<>>
    => /\ \A i \in CallsOf("UpdateAutoScalingGroup") :
              /\ "TerminationPolicies" \in DOMAIN calls[i].opts
              /\ calls[i].opts["TerminationPolicies"] = <<"Default">>
       /\ (/\ pc = "done" /\ ret = "ok" /\ "found" \in DOMAIN loc
           /\ loc.found /\ loc.TerminationPolicies = <<"Default">>)
          => /\ ~loc.ok
             /\ d.termination_policies = <<>>
             /\ d.termination_policies = Planned.termination_policies

\* C35, witness: an update from <<"OldestInstance">> to no policy sent
\* <<"Default">>, its read found <<"Default">>, and the attribute is empty.
C35_Witness ==
    /\ op = "update" /\ pc = "done" /\ ret = "ok"
    /\ "found" \in DOMAIN loc /\ loc.found
    /\ loc.TerminationPolicies = <<"Default">>
    /\ loc.planned.old.termination_policies = <<"OldestInstance">>
    /\ loc.planned.termination_policies = <<>>
    /\ calls[1].opts["TerminationPolicies"] = <<"Default">>
    /\ d.termination_policies = <<>>

\* The first describe of delete found the group without instances and with
\* desired capacity 0.
DeleteFoundIdleGroup ==
    /\ op = "delete" /\ Len(calls) >= 1
    /\ ReportsGroup(calls[1])
    /\ calls[1].inst = 0 /\ calls[1].cap = 0

\* C36: delete makes an UpdateAutoScalingGroup call only when its first
\* describe reported the group with an instance or with a desired capacity
\* above zero; for a group without instances and with desired capacity 0
\* there is none, and the call after the first describe is the delete
\* request.
C36_DrainOnlyWhenBusy ==
    op = "delete" =>
        /\ CallsOf("UpdateAutoScalingGroup") /= {} => DeleteFoundBusyGroup
        /\ DeleteFoundIdleGroup =>
              /\ CallsOf("UpdateAutoScalingGroup") = {}
              /\ pc /= "drainRetry" /\ pc /= "drainUpdate"
              /\ IF Len(calls) = 1 THEN pc = "deleteRetry"
                 ELSE calls[2].api = "DeleteAutoScalingGroup"

\* C36, witness: without force_delete an idle group was deleted by the
\* delete request that followed the first describe, and delete returned
\* success.
C36_Witness ==
    /\ DeleteFoundIdleGroup /\ ~d.force_delete
    /\ pc = "done" /\ ret = "ok"
    /\ calls[2].api = "DeleteAutoScalingGroup" /\ calls[2].res = "ok"
    /\ CallsOf("UpdateAutoScalingGroup") = {}

\* C37: a value of wait_for_capacity_timeout gets at least one validation
\* error exactly when it cannot be parsed as a duration or parses to a
\* negative duration; a value that parses to zero or more gets none.
C37_TimeoutValidation ==
    op = "wait_for_capacity_timeout" /\ pc = "done" =>
        /\ Len(ret) >= 1 <=>
              ParseDuration(loc.value).err \/ ParseDuration(loc.value).d < 0
        /\ ~ParseDuration(loc.value).err /\ ParseDuration(loc.value).d >= 0 =>
              ret = <<>>
        /\ ParseDuration(loc.value).err =>
              ret = <<"cannot be parsed as a duration">>

\* C37, witness: the value "-1m" parsed to minus one minute and was
\* rejected with one error; in the same family "1x" cannot be parsed, and
\* "0" and "1m1s" are accepted.
C37_Witness ==
    /\ op = "wait_for_capacity_timeout" /\ pc = "done"
    /\ loc.value = <<"-", "1", "m">>
    /\ ParseDuration(loc.value) = [err |-> FALSE, d |-> 0 - 60000]
    /\ ret = <<"must be greater than zero">>
    /\ ValidateWaitForCapacityTimeout(<<"1", "x">>) = <<"cannot be parsed as a duration">>
    /\ ValidateWaitForCapacityTimeout(<<"0">>) = <<>>
    /\ ValidateWaitForCapacityTimeout(<<"1", "m", "1", "s">>) = <<>>
    /\ ParseDuration(<<"1", "m", "1", "s">>).d = 61000

\* The outposts of the pages listed so far, in order, nil pointers included.
RECURSIVE ListedOutposts(_)
ListedOutposts(n) ==
    IF n = 0 THEN <<>> ELSE ListedOutposts(n - 1) \o calls[n].outposts

\* The listed outposts that agree with every filter the lookup was given.
ListedMatches ==
    SelectSeq(ListedOutposts(Len(calls)),
              LAMBDA o : /\ ~o.nil
                         /\ d.id = "" \/ d.id = o.OutpostId
                         /\ loc.name = "" \/ loc.name = o.Name)

\* C38: the Outposts lookup asks for the first page without a token and for
\* each later page with the token of the page before, and asks no more after
\* a page without a token; a list error ends the lookup at once with an error
\* and no ID; otherwise the lookup succeeds exactly when one outpost of all
\* the pages matches every given filter, and the ID is then that outpost's
\* ID; with no match or several it returns an error and sets no ID.
C38_OutpostLookup ==
    op = "outposts" =>
        /\ \A i \in 1..Len(calls) :
            /\ calls[i].token = IF i = 1 THEN 0 ELSE calls[i - 1].next
            /\ i > 1 => calls[i - 1].res = "ok" /\ calls[i - 1].next /= 0
        /\ (calls /= <<>> /\ calls[Len(calls)].res = "error") =>
               pc = "done" /\ ret = "ErrList" /\ d.Id = ""
        /\ pc = "list" =>
               /\ d.Id = ""
               /\ calls /= <<>> => calls[Len(calls)].next /= 0
        /\ (pc = "done" /\ calls[Len(calls)].res /= "error") =>
               /\ calls[Len(calls)].next = 0
               /\ ret = "ok" <=> Len(ListedMatches) = 1
               /\ ret = "ok" => d.Id = ListedMatches[1].OutpostId
               /\ Len(ListedMatches) = 0 => ret = "ErrNoOutpost" /\ d.Id = ""
               /\ Len(ListedMatches) > 1 =>
                      ret = "ErrMultipleOutposts" /\ d.Id = ""

\* A lookup by ID and name went through two pages, the only outpost that
\* matches both filters was on the second page next to one that matches
\* the ID alone, and the ID was set to it.
C38_Witness ==
    /\ op = "outposts" /\ pc = "done" /\ ret = "ok"
    /\ Len(calls) = 2 /\ calls[1].next = 2 /\ calls[2].token = 2
    /\ d.id = "op-2" /\ loc.name = "a"
    /\ calls[1].outposts = <<Outpost("op-1", "a"), NilOutpost>>
    /\ calls[2].outposts = <<Outpost("op-2", "b"), Outpost("op-2", "a")>>
    /\ d.Id = "op-2"

====
